---------------------------- MODULE Spec2Model ----------------------------
(***************************************************************************)
(* State-machine model of the xelix kernel's low-level runtime:            *)
(*   - the physical frame allocator    (src/memory/paging/frames.c)        *)
(*   - the kernel heap                 (src/src/mem/kmalloc.c)             *)
(*   - the virtual address allocator   (src/src/mem/valloc.c)              *)
(*   - the pipe                        (src/src/fs/pipe.c)                 *)
(*   - the interrupt dispatch          (src/src/interrupts/interrupts.c)   *)
(*   - the spin locks of valloc.c and kmalloc.c                            *)
(*   - the ELF loader                 (src/src/tasks/elf.c)               *)
(*   - the ext2 file system            (src/src/fs/ext2.c)                 *)
(* Each subsystem has its own specification (SpecFrames, SpecKmalloc, ...);*)
(* the variables of the other subsystems stay at their initial values.     *)
(***************************************************************************)
EXTENDS Integers, Sequences, FiniteSets, TLC

VARIABLES
    usedFrames,   \* frames.c: the bitmap, frame number -> 0 (free) / 1 (used)
    held,         \* history: frames returned by frames_allocateFrame and not freed since
    fret,         \* history: the last frame call and what it returned
    mem,          \* kmalloc.c: the words the allocator has written, address -> value
    last_free,    \* kmalloc.c:95, 0 is NULL
    alloc_start,  \* kmalloc.c:96
    alloc_end,    \* kmalloc.c:97
    kstate,       \* "run", "pairs" (running kmalloc(64)/kfree pairs only),
                  \* "panic" (panic() was called), "fault" (NULL dereferenced),
                  \* "corrupt" (an invalid kfree has changed the allocator's state)
    live,         \* history: pointers returned by kmalloc and not freed since
    ncalls,       \* history: the number of kmalloc calls so far (bounded by MaxCalls)
    kret,         \* history: the last heap call: its arguments, the pointer it
                  \* returned, whether it changed the allocator's state, alloc_end
                  \* before it (end0); for kmalloc(64)/kfree pairs, their number so
                  \* far (n) and alloc_end after the first of them (first)
    bitmap,       \* valloc.c: ctx->bitmap of each context, the set of set bits
    ranges,       \* valloc.c: ctx->ranges of each context, a record address or NULL
    lock,         \* valloc.c: ctx->lock of each context, TRUE when held
    ptab,         \* the page tables behind ctx->page_dir: page -> physical address
    recs,         \* the vmem_t records in kernel heap memory, by address (slot)
    inuse,        \* the slots that hold a record kmalloc has handed out
    pframes,      \* the physical pages palloc has handed out
    outs,         \* the range copies that callers of valloc_at and vmap hold
    vstate,       \* "run", "spin" (a call waits for a lock for ever), "panic",
                  \* "uaf" (a call has read or written a freed record)
    vcalls,       \* history: the number of valloc_at and vmap calls so far
    vret,         \* history: the last valloc call, its arguments, what it
                  \* returned (ret), the copy it took or gave (out), and the
                  \* bitmaps before it (bitmap0)
    buffer,       \* pipe.c: the bytes of pipe->buffer, offset -> byte
    data_size,    \* pipe.c: pipe->data_size
    rd,           \* the reader's pipe_read call: where it is (pc), the size it
                  \* was called with (req), size, dest, data_size when the
                  \* wait for data ended (before)
    wr,           \* the writer's pipe_write call: where it is (pc), source, size
    pstate,       \* "run" or "fault" (memcpy ran over the end of the buffer)
    accepted,     \* history: the bytes of the writes that returned size, in order
    delivered,    \* history: the bytes that reads have returned, in order
    pret,         \* history: the last pipe call that returned
    inInterrupt,  \* interrupts.c:31, the static flag of interrupt_callback
    interruptHandlers, \* interrupts.c:26: vector -> handler, 0 when none
    istack,       \* the calls of interrupt_callback that have not returned:
                  \* vector (int_no), where the call is (pc), whether it has
                  \* called a handler, inInterrupt when it was called (flag0)
    iret,         \* history: the last call of interrupt_callback that returned
    slock,        \* the spin lock words: ctx->lock of each context and
                  \* kmalloc_lock, 0 when free
    ltask,        \* each task's call into the allocators: the statements on
                  \* locks it has still to run (prog), the locks it has taken
                  \* and not released (held)
    lstate,       \* "run", "panic" (panic() was called), "fault" (NULL dereferenced)
    \* ELF loader (elf.c)
    etask,        \* the task_t fields that elf_load_file writes
    ecalls,       \* number of elf_load_file calls made
    eret,         \* the last call: result, errno, and the task before it
    \* ext2 (ext2.c)
    superblock,   \* block_size (the shift s of 1024 << s) and block_count
    fp,           \* the open descriptor: inode (0: none) and offset
    xret,         \* the last call into ext2 and what it returned
    \* ext2_init and the mount
    build,        \* which of the two ext2.c files is compiled
    mdisk,        \* the disk: the superblock on it and the mode of one inode
    msuper,       \* the superblock in memory
    mount,        \* what vfs_mount registered: the path and the callbacks
    mret,         \* the last call and where ext2_init ended
    \* ext2 calls on a disk whose reads can fail
    io,           \* the call: op, pc, the path and names left, the inode reached
                  \* (cur), whether a sector read has failed, ret and errno
    \* sleep_ticks (lib/generic.h)
    pit_tick,     \* the counter of timer interrupts
    sl,           \* the sleeping task: pc, pit_tick at the call (start), timeout,
                  \* until, and the value of pit_tick it has tested last (seen)
    \* execve (tasks/syscalls/execve.c)
    sched,        \* the pids of the tasks in the scheduler
    curtask,      \* the pid of the running task
    exret,        \* the last execve: its arguments, the tasks before it, the task made
    fault_handlers, \* interruptHandlers[0..31] as far as cpu_fault.c sets them
    freg,         \* the next vector cpu_init_fault_handlers registers
    cf,           \* history: the last CPU exception and what handler() did
    kl,           \* the kmalloc or kfree call of each task: where it is, its
                  \* size or pointer, whether it has read a header without the lock
    klret,        \* history: the call that returned last
    eoi           \* history: the EOIs that the entry which returned last has sent

fvars == <<usedFrames, held, fret>>

kvars == <<mem, last_free, alloc_start, alloc_end, kstate, live, ncalls, kret>>

vvars == <<bitmap, ranges, lock, ptab, recs, inuse, pframes, outs, vstate, vcalls, vret>>

pvars == <<buffer, data_size, rd, wr, pstate, accepted, delivered, pret>>

ivars == <<inInterrupt, interruptHandlers, istack, iret>>

lvars == <<slock, ltask, lstate>>

evars == <<etask, ecalls, eret>>

xvars == <<superblock, fp, xret>>

mvars == <<build, mdisk, msuper, mount, mret>>

iovars == <<io>>

svars == <<pit_tick, sl>>

exvars == <<sched, curtask, exret>>

cfvars == <<fault_handlers, freg, cf>>

klvars == <<kl, klret>>

irqvars == <<eoi>>

vars == <<fvars, kvars, vvars, pvars, ivars, lvars, evars, xvars, mvars, iovars, svars, exvars, cfvars, klvars, irqvars>>

(***************************************************************************)
(* Frame allocator                                                         *)
(***************************************************************************)

\* numFrames (frames.c:18 sets 0x8000000 / 0x1000); scaled down for checking.
NumFrames == 5

Frames == 0 .. (NumFrames - 1)

\* bitmap_findFirstClearedBit: the lowest clear bit; 0 when no bit is clear
\* (the convention frames_allocateFrame tests for at frames.c:31).
bitmap_findFirstClearedBit(bm) ==
    IF \E i \in DOMAIN bm : bm[i] = 0
    THEN CHOOSE i \in DOMAIN bm : bm[i] = 0 /\ \A j \in DOMAIN bm : bm[j] = 0 => i <= j
    ELSE 0

bitmap_get(bm, i) == bm[i]

bitmap_set(bm, i) == [bm EXCEPT ![i] = 1]

bitmap_clear(bm, i) == [bm EXCEPT ![i] = 0]

frames_init ==
    /\ usedFrames = [i \in Frames |-> 0]
    /\ held = {}
    /\ fret = [op |-> "init", frame |-> 0, dup |-> FALSE]

\* frames.c:27-39. The out-of-memory branch only prints; the bit is set and
\* the frame number returned on every path.
frames_allocateFrame ==
    LET frameNum == bitmap_findFirstClearedBit(usedFrames)
    IN  /\ usedFrames' = bitmap_set(usedFrames, frameNum)
        /\ fret' = [op |-> "alloc", frame |-> frameNum, dup |-> frameNum \in held]
        /\ held' = held \cup {frameNum}

\* frames.c:41-49
frames_freeFrame(frameNum) ==
    /\ usedFrames' = IF bitmap_get(usedFrames, frameNum) # 1
                     THEN usedFrames
                     ELSE bitmap_clear(usedFrames, frameNum)
    /\ fret' = [op |-> "free", frame |-> frameNum, dup |-> FALSE]
    /\ held' = held \ {frameNum}


(***************************************************************************)
(* Kernel heap (kmalloc.c)                                                 *)
(*                                                                         *)
(* The arena is modelled as the memory words the allocator writes: a block *)
(* header {size, type} at h and h+4, the free list fields {prev, next} of  *)
(* a free block at h+8 and h+12, the footer at h+8+size.  Request sizes    *)
(* are multiples of 4, so no two fields share a word.                      *)
(***************************************************************************)

SizeofMemBlock == 8
SizeofFooter == 4
SizeofFreeBlock == 8
PAGE_SIZE == 4096
AlignSlack == 256
TYPE_USED == 0
TYPE_FREE == 1
NULL == 0

\* What a read of a word the allocator never wrote yields in the model.
Unwritten == 0 - 1

\* Bounds of the checked instances.
ArenaPages == 3
MaxLive == 3
MaxCalls == 3
MaxPairs == 2

\* The addresses kmalloc_init may be given for the arena: the content of the
\* first block on a page boundary, and the arena itself on one.
AllocStarts == {1048576 - SizeofMemBlock, 1048576}

\* Request sizes: kmalloc raises 4 to sizeof(struct free_block); a block of
\* 3900 bytes on a page boundary leaves the next content 184 bytes short of
\* the next boundary, less than the 0x100 of get_alignment_offset.  The
\* kmalloc(64)/kfree pairs add a third size.
Sizes == {4, 3900}

alloc_max == alloc_start + ArenaPages * PAGE_SIZE

Rd(m, a) == IF a \in DOMAIN m THEN m[a] ELSE Unwritten

Wr(m, a, v) == [x \in (DOMAIN m) \cup {a} |-> IF x = a THEN v ELSE m[x]]

SizeOf(m, h) == Rd(m, h)

TypeOf(m, h) == Rd(m, h + 4)

FbPrev(m, fb) == Rd(m, fb)

FbNext(m, fb) == Rd(m, fb + 4)

GET_FOOTER(m, h) == h + SizeOf(m, h) + SizeofMemBlock

GET_CONTENT(h) == h + SizeofMemBlock

GET_FB(h) == GET_CONTENT(h)

GET_HEADER_FROM_FB(fb) == fb - SizeofMemBlock

PREV_FOOTER(h) == h - SizeofFooter

PREV_BLOCK(m, h) == PREV_FOOTER(h) - Rd(m, PREV_FOOTER(h)) - SizeofMemBlock

NEXT_BLOCK(m, h) == GET_FOOTER(m, h) + SizeofFooter

FULL_SIZE(m, h) == SizeOf(m, h) + SizeofFooter + SizeofMemBlock

VMEM_ALIGN(a) == ((a + PAGE_SIZE - 1) \div PAGE_SIZE) * PAGE_SIZE

\* The allocator's state as a value: hs.mem, hs.last_free, hs.alloc_end.
HeapNow == [mem |-> mem, last_free |-> last_free, alloc_end |-> alloc_end]

\* Mutant: unlinking the newest free block leaves last_free pointing at it.
unlink_from_prev_stale_last(hs, m1, fb) ==
    [hs EXCEPT !.mem = IF FbPrev(m1, fb) # NULL
                       THEN Wr(m1, FbPrev(m1, fb) + 4, FbNext(m1, fb))
                       ELSE m1]

\* kmalloc.c:105-111, after next->prev was updated.
unlink_from_prev(hs, m1, fb) ==
    [hs EXCEPT !.mem = IF FbPrev(m1, fb) # NULL
                       THEN Wr(m1, FbPrev(m1, fb) + 4, FbNext(m1, fb))
                       ELSE m1,
               !.last_free = IF fb = hs.last_free THEN FbPrev(m1, fb)
                             ELSE hs.last_free]

\* kmalloc.c:100-112; each field is re-read from memory as the C code does.
unlink_free_block(hs, fb) ==
    unlink_from_prev(hs,
                     IF FbNext(hs.mem, fb) # NULL
                     THEN Wr(hs.mem, FbNext(hs.mem, fb), FbPrev(hs.mem, fb))
                     ELSE hs.mem,
                     fb)

\* kmalloc.c:114-123, the footer once header->size is written.
set_footer(m1, h) == Wr(m1, GET_FOOTER(m1, h), SizeOf(m1, h))

\* kmalloc.c:114-123
set_block(m, sz, h) == set_footer(Wr(m, h, sz), h)

\* kmalloc.c:139-151: write the free block metadata and add the block.
push_free(hs, header, fb) ==
    [hs EXCEPT !.mem = [x \in (DOMAIN hs.mem) \cup
                               ({header + 4, fb, fb + 4} \cup
                                (IF hs.last_free # NULL THEN {hs.last_free + 4} ELSE {}))
                        |-> IF x = fb + 4 THEN NULL
                            ELSE IF x = fb THEN hs.last_free
                            ELSE IF x = header + 4 THEN TYPE_FREE
                            ELSE IF hs.last_free # NULL /\ x = hs.last_free + 4 THEN fb
                            ELSE hs.mem[x]],
               !.last_free = fb]

\* Mutant: a freed block is never merged into a FREE predecessor.
free_block_prev_nomerge(hs, header, prev) ==
    [hs |-> push_free(hs, header, GET_FB(header)), header |-> header]

\* kmalloc.c:126-152; result: the state and the header of the free block.
free_block_prev(hs, header, prev) ==
    IF header > alloc_start /\ TypeOf(hs.mem, prev) = TYPE_FREE
    THEN [hs |-> [hs EXCEPT !.mem =
                    set_block(hs.mem,
                              SizeOf(hs.mem, prev) + FULL_SIZE(hs.mem, header),
                              prev)],
          header |-> prev]
    ELSE [hs |-> push_free(hs, header, GET_FB(header)), header |-> header]

\* Mutant: a freed block never absorbs a FREE successor.
free_block_next_nomerge(r, check_next, next) == r

\* kmalloc.c:154-164
free_block_next(r, check_next, next) ==
    IF check_next /\ r.hs.alloc_end > next /\ TypeOf(r.hs.mem, next) = TYPE_FREE
    THEN [hs |-> unlink_free_block(
                    [r.hs EXCEPT !.mem =
                        set_block(r.hs.mem,
                                  SizeOf(r.hs.mem, r.header) + FULL_SIZE(r.hs.mem, next),
                                  r.header)],
                    GET_FB(next)),
          header |-> r.header]
    ELSE r

free_block_merged(r, check_next) ==
    free_block_next(r, check_next, NEXT_BLOCK(r.hs.mem, r.header))

\* kmalloc.c:125-165; result: the new state and the header of the free block.
free_block(hs, header, check_next) ==
    free_block_merged(free_block_prev(hs, header, PREV_BLOCK(hs.mem, header)),
                      check_next)

\* Mutant: the new block keeps the bytes of its own header and footer.
split_block_at_whole(m1, orig_size, sz, nb) ==
    [mem |-> set_block(m1, orig_size - sz, nb), new |-> nb]

\* kmalloc.c:175-178
split_block_at(m1, orig_size, sz, nb) ==
    [mem |-> set_block(m1, orig_size - sz - SizeofMemBlock - SizeofFooter, nb),
     new |-> nb]

split_block_set(m1, header, orig_size, sz) ==
    split_block_at(m1, orig_size, sz, NEXT_BLOCK(m1, header))

\* kmalloc.c:167-179; new = NULL when the block is too small to split.
split_block(m, header, sz) ==
    IF SizeOf(m, header) < sz + SizeofMemBlock + SizeofFooter + SizeofFreeBlock
    THEN [mem |-> m, new |-> NULL]
    ELSE split_block_set(set_block(m, sz, header), header, SizeOf(m, header), sz)

\* Mutant: the offset is computed for the header, not for the content.
get_alignment_offset_of_header(address) ==
    LET offset == VMEM_ALIGN(address) - address
    IN  IF address % PAGE_SIZE # 0
        THEN (IF offset < AlignSlack THEN offset + PAGE_SIZE ELSE offset)
        ELSE 0

\* kmalloc.c:181-199
get_alignment_offset(address) ==
    LET content_addr == GET_CONTENT(address)
        offset == VMEM_ALIGN(content_addr) - content_addr
    IN  IF content_addr % PAGE_SIZE # 0
        THEN (IF offset < AlignSlack THEN offset + PAGE_SIZE ELSE offset)
        ELSE 0

\* kmalloc.c:243-249: the remainder of the split goes back to the free list.
take_split(hs1, sp, fblock) ==
    IF sp.new # NULL
    THEN [hs |-> free_block([hs1 EXCEPT !.mem = Wr(sp.mem, fblock + 4, TYPE_USED)],
                            sp.new, TRUE).hs,
          header |-> fblock]
    ELSE [hs |-> hs1, header |-> fblock]

\* kmalloc.c:236-250
take_free_block(hs1, fblock, sz) == take_split(hs1, split_block(hs1.mem, fblock, sz), fblock)

\* kmalloc.c:204-251, the loop from free block fb on.
RECURSIVE ScanFreeList(_, _, _, _)
ScanFreeList(hs, fb, sz, align) ==
    IF fb = NULL THEN [hs |-> hs, header |-> NULL]
    ELSE
      LET fblock == GET_HEADER_FROM_FB(fb)
          alignment_offset == IF align THEN get_alignment_offset(fblock) ELSE 0
          sz_needed == IF align
                       THEN sz + alignment_offset + SizeofMemBlock + SizeofFooter
                       ELSE sz
      IN  IF TypeOf(hs.mem, fblock) # TYPE_FREE
          THEN ScanFreeList(hs, FbPrev(hs.mem, fb), sz, align)
          ELSE IF SizeOf(hs.mem, fblock) >= sz_needed
          THEN take_free_block(unlink_free_block(hs, fb), fblock, sz + alignment_offset)
          ELSE ScanFreeList(hs, FbPrev(hs.mem, fb), sz, align)

\* Mutant: the scan skips the newest free block.
get_free_block_skip_newest(hs, sz, align) ==
    ScanFreeList(hs,
                 IF hs.last_free = NULL THEN NULL ELSE FbPrev(hs.mem, hs.last_free),
                 sz, align)

\* kmalloc.c:201-254
get_free_block(hs, sz, align) == ScanFreeList(hs, hs.last_free, sz, align)

\* The words [from, to) leave the allocator's hands: a handed-out block's
\* content is the caller's to overwrite (and zmalloc zeroes it).
Forget(m, from, to) == [x \in {a \in DOMAIN m : a < from \/ a >= to} |-> m[x]]

\* kmalloc.c:320-336
kmalloc_return(hs, header) ==
    [hs |-> [hs EXCEPT !.mem = Forget(Wr(hs.mem, header + 4, TYPE_USED),
                                      GET_CONTENT(header),
                                      GET_CONTENT(header) + SizeOf(hs.mem, header))],
     ptr |-> GET_CONTENT(header), end |-> "run"]

\* kmalloc.c:312-318; a NULL from split_block is dereferenced at line 315.
kmalloc_gap(hs, header, sp) ==
    IF sp.new = NULL THEN [hs |-> hs, ptr |-> NULL, end |-> "fault"]
    ELSE kmalloc_return(
            free_block([hs EXCEPT !.mem = Wr(sp.mem, sp.new + 4, TYPE_USED)],
                       header, TRUE).hs,
            sp.new)

\* kmalloc.c:309-320
kmalloc_align(hs, header, align, alignment_offset) ==
    IF align /\ alignment_offset # 0
    THEN kmalloc_gap(hs, header,
                     split_block(hs.mem, header,
                                 alignment_offset - SizeofMemBlock - SizeofFooter))
    ELSE kmalloc_return(hs, header)

\* kmalloc.c:305-306
kmalloc_carve(hs, m1, align, alignment_offset) ==
    kmalloc_align([hs EXCEPT !.mem = m1,
                             !.alloc_end = GET_FOOTER(m1, hs.alloc_end) + SizeofFooter],
                  hs.alloc_end, align, alignment_offset)

\* kmalloc.c:294-307
kmalloc_new(hs, sz, align, alignment_offset) ==
    IF hs.alloc_end + sz >= alloc_max
    THEN [hs |-> hs, ptr |-> NULL, end |-> "panic"]
    ELSE kmalloc_carve(hs,
                       set_block(hs.mem,
                                 IF align /\ alignment_offset # 0
                                 THEN sz + get_alignment_offset(hs.alloc_end)
                                 ELSE sz,
                                 hs.alloc_end),
                       align, alignment_offset)

\* kmalloc.c:286-320
kmalloc_found(g, sz, align) ==
    IF g.header = NULL
    THEN kmalloc_new(g.hs, sz, align,
                     IF align THEN get_alignment_offset(g.hs.alloc_end) ELSE 0)
    ELSE kmalloc_align(g.hs, g.header, align,
                       IF align THEN get_alignment_offset(g.header) ELSE 0)

\* kmalloc.c:256-337 with the lock free (one caller at a time).  Addresses
\* of the checked arenas stay far below 2^32, so the (uint32_t) cast of
\* line 306 changes nothing.  Result: the new state, the pointer returned,
\* and how the call ended ("run", "panic" or "fault").
kmalloc_sized(hs, sz, align) == kmalloc_found(get_free_block(hs, sz, align), sz, align)

kmalloc(hs, size, align) ==
    kmalloc_sized(hs, IF size < SizeofFreeBlock THEN SizeofFreeBlock ELSE size, align)

\* kmalloc.c:339-371 with the lock free.
kfree(hs, ptr) ==
    IF ptr = NULL THEN hs
    ELSE IF \/ ptr - SizeofMemBlock < alloc_start
            \/ ptr >= hs.alloc_end
            \/ TypeOf(hs.mem, ptr - SizeofMemBlock) = TYPE_FREE
    THEN hs
    ELSE free_block(hs, ptr - SizeofMemBlock, TRUE).hs

\* kmalloc.c:389-410 for an area at addr.
kmalloc_init(addr) ==
    /\ alloc_start = addr
    /\ alloc_end = addr
    /\ mem = <<>>
    /\ last_free = NULL
    /\ kstate = "run"
    /\ live = {}
    /\ ncalls = 0
    /\ kret = [op |-> "init", ptr |-> NULL, sz |-> 0, align |-> FALSE,
               changed |-> FALSE, n |-> 0, first |-> 0, end0 |-> addr]

KmallocInit == \E a \in AllocStarts : kmalloc_init(a)

SetHeap(hs) ==
    /\ mem' = hs.mem
    /\ last_free' = hs.last_free
    /\ alloc_end' = hs.alloc_end
    /\ UNCHANGED alloc_start

KRet(op, ptr, sz, align, changed, n, first) ==
    [op |-> op, ptr |-> ptr, sz |-> sz, align |-> align, changed |-> changed,
     n |-> n, first |-> first, end0 |-> alloc_end]

\* a caller's kmalloc(sz) / kmalloc_a(sz)
Kmalloc(sz, align) ==
    /\ kstate = "run"
    /\ Cardinality(live) < MaxLive
    /\ ncalls < MaxCalls
    /\ ncalls' = ncalls + 1
    /\ \E r \in {kmalloc(HeapNow, sz, align)} :
           /\ SetHeap(r.hs)
           /\ kstate' = r.end
           /\ live' = IF r.end = "run" THEN live \cup {r.ptr} ELSE live
           /\ kret' = KRet("kmalloc", r.ptr, sz, align, r.hs # HeapNow, 0, 0)

\* a caller's kfree(p) of a pointer it holds
Kfree(p) ==
    /\ kstate = "run"
    /\ \E hs \in {kfree(HeapNow, p)} :
           /\ SetHeap(hs)
           /\ kret' = KRet("kfree", p, 0, FALSE, hs # HeapNow, 0, 0)
    /\ live' = live \ {p}
    /\ UNCHANGED <<kstate, ncalls>>

\* kfree of NULL or of a pointer outside [alloc_start, alloc_end)
KfreeOutside(p) ==
    /\ kstate = "run"
    /\ p = NULL \/ p < alloc_start \/ p >= alloc_end
    /\ \E hs \in {kfree(HeapNow, p)} :
           /\ SetHeap(hs)
           /\ kret' = KRet("kfree_outside", p, 0, FALSE, hs # HeapNow, 0, 0)
    /\ UNCHANGED <<kstate, live, ncalls>>

\* a second kfree of the pointer that the last call freed
KfreeAgain ==
    /\ kstate = "run"
    /\ kret.op = "kfree"
    /\ \E hs \in {kfree(HeapNow, kret.ptr)} :
           /\ SetHeap(hs)
           /\ kret' = KRet("kfree_again", kret.ptr, 0, FALSE, hs # HeapNow, 0, 0)
           /\ kstate' = IF hs # HeapNow THEN "corrupt" ELSE "run"
    /\ UNCHANGED <<live, ncalls>>

\* p = kmalloc(64); kfree(p); and then the same again
KmallocKfreePair ==
    /\ kstate \in {"run", "pairs"}
    /\ \E n \in {IF kret.op = "pair" THEN kret.n + 1 ELSE 1} :
       \E r \in {kmalloc(HeapNow, 64, FALSE)} :
       \E hs \in {IF r.end = "run" THEN kfree(r.hs, r.ptr) ELSE r.hs} :
           /\ n <= MaxPairs
           /\ SetHeap(hs)
           /\ kstate' = IF r.end = "run" THEN "pairs" ELSE r.end
           /\ kret' = KRet("pair", r.ptr, 64, FALSE, hs # HeapNow, n,
                           IF n = 1 THEN hs.alloc_end ELSE kret.first)
    /\ UNCHANGED <<live, ncalls>>

OutsidePtrs == {NULL, alloc_start + 4, alloc_end}

(***************************************************************************)
(* Virtual address allocator (valloc.c)                                    *)
(*                                                                         *)
(* A context is its VA bitmap, the head of its range list, its lock and    *)
(* its page tables.  The vmem_t records live in kernel heap memory; a slot *)
(* is the address kmalloc(sizeof(vmem_t)) returned for one of them.  The   *)
(* copy that valloc_at and vmap hand to the caller is a record value.      *)
(* Flags are sets of flag names.                                           *)
(***************************************************************************)

\* PAGE_ALLOC_BITMAP_SIZE, one bit per page of the address space; scaled down.
NPages == 5
\* the pages of physical memory that palloc manages; scaled down.
NPhys == 5
\* the number of addresses kmalloc(sizeof(vmem_t)) chooses from
MaxRanges == 3
\* the number of valloc_at and vmap calls of one behaviour
MaxVCalls == 3

VA_KERNEL == "kernel"

Ctxs == {VA_KERNEL, "task"}

VPages == 0 .. (NPages - 1)

Slots == 1 .. MaxRanges

\* The bitmap covers the whole address space, so addresses wrap here.
AddrSpace == NPages * PAGE_SIZE

NotFound == 0 - 1

ALIGN_DOWN(x, a) == x - (x % a)

RDIV(x, a) == (x + a - 1) \div a

\* bitmap_find: the first run of size clear bits, -1 when there is none
bitmap_find(bm, size) ==
    LET fits(p) == p + size <= NPages /\ (p .. (p + size - 1)) \cap bm = {}
    IN  IF \E p \in VPages : fits(p)
        THEN CHOOSE p \in VPages : fits(p) /\ \A q \in VPages : fits(q) => p <= q
        ELSE NotFound

bitmap_get_bit(bm, i) == i \in bm

bitmap_set_n(bm, first, n) == bm \cup (first .. (first + n - 1))

bitmap_clear_n(bm, first, n) == bm \ (first .. (first + n - 1))

\* palloc: size contiguous pages of physical memory, NULL when there are none;
\* page 0 is never handed out, its address is NULL.
palloc(pf, size) ==
    LET fits(p) == p >= 1 /\ p + size <= NPhys /\ (p .. (p + size - 1)) \cap pf = {}
    IN  IF \E p \in 0 .. (NPhys - 1) : fits(p)
        THEN LET first == CHOOSE p \in 0 .. (NPhys - 1) :
                              fits(p) /\ \A q \in 0 .. (NPhys - 1) : fits(q) => p <= q
             IN  [pframes |-> pf \cup (first .. (first + size - 1)),
                  phys |-> first * PAGE_SIZE]
        ELSE [pframes |-> pf, phys |-> NULL]

pfree(pf, first, n) == pf \ (first .. (first + n - 1))

\* paging_set_range: every page of [virt, virt + size) maps to phys + its offset
paging_set_range(pt, virt, phys, size) ==
    [p \in VPages |-> IF p * PAGE_SIZE >= virt /\ p * PAGE_SIZE < virt + size
                      THEN phys + (p * PAGE_SIZE - virt)
                      ELSE pt[p]]

paging_clear_range(pt, virt, size) ==
    [p \in VPages |-> IF p * PAGE_SIZE >= virt /\ p * PAGE_SIZE < virt + size
                      THEN NotFound
                      ELSE pt[p]]

\* Every context of the model was made by valloc_new with a page directory.
page_dir == [c \in Ctxs |-> TRUE]

NullRange ==
    [ctx |-> "none", addr |-> NULL, phys |-> NULL, shards |-> <<>>, size |-> 0,
     flags |-> {}, self |-> NULL, previous |-> NULL, next |-> NULL]

VNow ==
    [bitmap |-> bitmap, ranges |-> ranges, lock |-> lock, ptab |-> ptab,
     recs |-> recs, inuse |-> inuse, pframes |-> pframes]

\* what a call leaves: the state, its return value, the copy in *vmem, and
\* how it ended ("run" when it returned)
VRes(vs, ret, out, end) == [vs |-> vs, ret |-> ret, out |-> out, end |-> end]

\* alloc_virt that leaves the bitmap alone
alloc_virt_no_set(vs, ctx, size, request) ==
    IF request # NULL
    THEN [vs |-> vs, virt |-> ALIGN_DOWN(request, PAGE_SIZE)]
    ELSE LET page_num == bitmap_find(vs.bitmap[ctx], size)
         IN  IF page_num = NotFound
             THEN [vs |-> vs, virt |-> NULL]
             ELSE [vs |-> vs, virt |-> page_num * PAGE_SIZE]

alloc_virt(vs, ctx, size, request) ==
    IF request # NULL
    THEN LET virt == ALIGN_DOWN(request, PAGE_SIZE)
             page_num == virt \div PAGE_SIZE
         IN  [vs |-> [vs EXCEPT !.bitmap[ctx] = bitmap_set_n(@, page_num, size)],
              virt |-> virt]
    ELSE LET page_num == bitmap_find(vs.bitmap[ctx], size)
         IN  IF page_num = NotFound
             THEN [vs |-> vs, virt |-> NULL]
             ELSE [vs |-> [vs EXCEPT !.bitmap[ctx] = bitmap_set_n(@, page_num, size)],
                   virt |-> page_num * PAGE_SIZE]

\* The loop of get_range from record range on.  A record that kfree has
\* released is not read ("uaf"); n bounds the walk of a list that has
\* become cyclic ("spin").
RECURSIVE walk_ranges(_, _, _, _, _)
walk_ranges(vs, range, addr, phys, n) ==
    IF range = NULL THEN [range |-> NULL, end |-> "run"]
    ELSE IF range \notin vs.inuse THEN [range |-> NULL, end |-> "uaf"]
    ELSE IF n = 0 THEN [range |-> NULL, end |-> "spin"]
    ELSE LET start == IF phys THEN vs.recs[range].phys ELSE vs.recs[range].addr
         IN  IF addr >= start /\ addr < start + vs.recs[range].size
             THEN [range |-> range, end |-> "run"]
             ELSE walk_ranges(vs, vs.recs[range].next, addr, phys, n - 1)

get_range(vs, ctx, addr, phys) ==
    IF ~phys /\ ~bitmap_get_bit(vs.bitmap[ctx], addr \div PAGE_SIZE)
    THEN [range |-> NULL, end |-> "run"]
    ELSE walk_ranges(vs, vs.ranges[ctx], addr, phys, MaxRanges)

\* valloc.c:173-195: the new record at address slot becomes the head of
\* ctx->ranges and is copied to *vmem.
valloc_at_link(vs, ctx, virt, phys, size, flags, slot) ==
    LET head == vs.ranges[ctx]
        range == [ctx |-> ctx, addr |-> virt, phys |-> phys, shards |-> <<>>,
                  size |-> size * PAGE_SIZE, flags |-> flags, self |-> slot,
                  previous |-> NULL, next |-> head]
        stale == head # NULL /\ head \notin (vs.inuse \cup {slot})
    IN  VRes([vs EXCEPT !.inuse = @ \cup {slot},
                        !.ranges[ctx] = slot,
                        !.recs = IF head = NULL \/ stale
                                 THEN [@ EXCEPT ![slot] = range]
                                 ELSE [[@ EXCEPT ![slot] = range]
                                          EXCEPT ![head].previous = slot]],
             0, range, IF stale THEN "uaf" ELSE "run")

\* valloc.c:139-171: VM_ZERO.  Memory content is not part of the model; what
\* is left of the zeroing is the lock of VA_KERNEL, the search of its bitmap
\* and the mapping it sets and clears in the kernel's page tables.
valloc_at_zero(vs, ctx, virt, phys, size, flags, slot) ==
    IF "VM_ZERO" \notin flags \/ (ctx = VA_KERNEL /\ "VM_NO_MAP" \notin flags)
    THEN valloc_at_link(vs, ctx, virt, phys, size, flags, slot)
    ELSE IF ctx # VA_KERNEL /\ vs.lock[VA_KERNEL]
    THEN VRes([vs EXCEPT !.lock[ctx] = TRUE], 0 - 1, NullRange, "spin")
    ELSE LET zero_page == bitmap_find(vs.bitmap[VA_KERNEL], size)
         IN  IF zero_page = NotFound
             THEN VRes(vs, 0 - 1, NullRange, "run")
             ELSE valloc_at_link(
                      [vs EXCEPT !.ptab[VA_KERNEL] =
                           paging_clear_range(@, zero_page * PAGE_SIZE, size * PAGE_SIZE)],
                      ctx, virt, phys, size, flags, slot)

\* valloc.c:133-137
valloc_at_map(vs, ctx, virt, phys, size, flags, slot) ==
    IF "VM_NO_MAP" \notin flags /\ page_dir[ctx]
    THEN valloc_at_zero([vs EXCEPT !.ptab[ctx] =
                              paging_set_range(@, virt, phys, size * PAGE_SIZE)],
                        ctx, virt, phys, size, flags, slot)
    ELSE valloc_at_zero(vs, ctx, virt, phys, size, flags, slot)

\* valloc.c:124-131
valloc_at_phys(vs, ctx, virt, phys, size, flags, slot) ==
    IF phys # NULL
    THEN valloc_at_map(vs, ctx, virt, phys, size, flags, slot)
    ELSE LET p == palloc(vs.pframes, size)
         IN  IF p.phys = NULL
             THEN VRes(vs, 0 - 1, NullRange, "run")
             ELSE valloc_at_map([vs EXCEPT !.pframes = p.pframes],
                                ctx, virt, p.phys, size, flags, slot)

\* valloc.c:116-120
valloc_at_virt(av, ctx, size, phys, flags, slot) ==
    IF av.virt = NULL
    THEN VRes(av.vs, 0 - 1, NullRange, "run")
    ELSE valloc_at_phys(av.vs, ctx, av.virt, phys, size, flags, slot)

\* valloc.c:108-196; slot is the address new_range() gets from kmalloc.
valloc_at(vs, ctx, size, virt_request, phys, flags, slot) ==
    IF vs.lock[ctx]
    THEN VRes(vs, 0 - 1, NullRange, "spin")
    ELSE valloc_at_virt(alloc_virt(vs, ctx, size, virt_request),
                        ctx, size, phys, flags, slot)

\* valloc.c:308-318.  The links are the copy's: what was in the record when
\* valloc_at or vmap copied it.
vfree_unlink(vs, range) ==
    [vs EXCEPT
       !.ranges[range.ctx] = IF @ = range.self THEN range.next ELSE @,
       !.recs = [s \in Slots |->
                    [vs.recs[s] EXCEPT
                       !.previous = IF s = range.next /\ s \in vs.inuse
                                    THEN range.previous ELSE @,
                       !.next = IF s = range.previous /\ s \in vs.inuse
                                THEN range.next ELSE @]]]

\* valloc.c:329-340.  shard->size was never written: shard_size is what
\* the kmalloc'ed memory of the shards happens to hold.
RECURSIVE vfree_shards(_, _, _, _)
vfree_shards(pf, shards, flags, shard_size) ==
    IF shards = <<>> THEN pf
    ELSE vfree_shards(IF "VM_FREE" \in flags
                      THEN pfree(pf, Head(shards).phys \div PAGE_SIZE,
                                 RDIV(shard_size, PAGE_SIZE))
                      ELSE pf,
                      Tail(shards), flags, shard_size)

\* valloc.c:320-342
vfree_release(vs, range, shard_size) ==
    [vs EXCEPT
       !.bitmap[range.ctx] = bitmap_clear_n(@, range.addr \div PAGE_SIZE,
                                            RDIV(range.size, PAGE_SIZE)),
       !.ptab[range.ctx] = paging_clear_range(@, range.addr, range.size),
       !.pframes = vfree_shards(
                       IF range.phys # NULL /\ "VM_FREE" \in range.flags
                       THEN pfree(@, range.phys \div PAGE_SIZE,
                                  RDIV(range.size, PAGE_SIZE))
                       ELSE @,
                       range.shards, range.flags, shard_size),
       !.inuse = @ \ {range.self},
       !.recs[range.self] = NullRange]

\* valloc.c:300-345; range is the caller's copy.
vfree(vs, range, shard_size) ==
    IF vs.lock[range.ctx]
    THEN VRes(vs, 0 - 1, NullRange, "spin")
    ELSE VRes(vfree_release(vfree_unlink(vs, range), range, shard_size), 0, range,
              IF \/ range.next # NULL /\ range.next \notin vs.inuse
                 \/ range.previous # NULL /\ range.previous \notin vs.inuse
              THEN "uaf" ELSE "run")

\* One pass of the loop of vmap (valloc.c:242-283) and the passes after it.
\* a holds what the loop does not change: ctx, src_ctx, src_addr,
\* src_aligned, src_offset, virt, size_pages and flags.  st holds
\* pages_offset, pages_mapped and range->shards.  The size field of a shard
\* is not set here (nor anywhere else), so a shard is its addr and phys.
RECURSIVE vmap_pass(_, _, _)
vmap_mapped(vs, a, st, src_range) ==
    LET shard == [addr |-> a.virt + st.pages_offset,
                  phys |-> src_range.phys
                           + ALIGN_DOWN(a.src_addr - src_range.addr, PAGE_SIZE)
                           + st.pages_offset]
        st1 == [pages_offset |-> st.pages_offset + PAGE_SIZE,
                pages_mapped |-> st.pages_mapped + 1,
                shards |-> <<shard>> \o st.shards]
    IN  IF st1.pages_mapped < a.size_pages
        THEN vmap_pass([vs EXCEPT !.ptab[a.ctx] =
                             paging_set_range(@, shard.addr, shard.phys, PAGE_SIZE)],
                       a, st1)
        ELSE [vs |-> [vs EXCEPT !.ptab[a.ctx] =
                           paging_set_range(@, shard.addr, shard.phys, PAGE_SIZE)],
              st |-> st1, exit |-> "done"]

vmap_found(vs, a, st, g) ==
    IF g.end # "run" THEN [vs |-> vs, st |-> st, exit |-> g.end]
    ELSE IF g.range = NULL
    THEN IF "VM_MAP_UNDERALLOC_WORKAROUND" \in a.flags
         THEN [vs |-> vs, st |-> [st EXCEPT !.pages_mapped = @ + 1], exit |-> "done"]
         ELSE [vs |-> vs, st |-> st, exit |-> "norange"]
    ELSE IF vs.recs[g.range].phys = NULL
    THEN [vs |-> vs, st |-> st, exit |-> "panic"]
    ELSE IF "VM_MAP_USER_ONLY" \in a.flags /\ "VM_USER" \notin vs.recs[g.range].flags
    THEN [vs |-> vs, st |-> st, exit |-> "useronly"]
    ELSE vmap_mapped(vs, a, st, vs.recs[g.range])

vmap_pass(vs, a, st) ==
    vmap_found(vs, a, st,
               get_range(vs, a.src_ctx, (a.src_aligned + st.pages_offset) % AddrSpace,
                         FALSE))

\* valloc.c:227-234, 285-297 and the returns inside the loop.  The record at slot is
\* never linked into ctx->ranges; the paths that return NULL leave it and
\* the shards allocated, and the VM_MAP_USER_ONLY path leaves both locks held.
vmap_finish(r, a, slot) ==
    LET range == [ctx |-> a.ctx, addr |-> a.virt, phys |-> NULL, shards |-> r.st.shards,
                  size |-> a.size_pages * PAGE_SIZE, flags |-> a.flags, self |-> slot,
                  previous |-> NULL, next |-> NULL]
        vs1 == [r.vs EXCEPT !.inuse = @ \cup {slot}, !.recs[slot] = range]
    IN  IF r.exit = "done"
        THEN IF r.st.pages_mapped = a.size_pages
             THEN VRes(vs1, a.virt + a.src_offset, range, "run")
             ELSE VRes(vs1, NULL, NullRange, "panic")
        ELSE IF r.exit = "norange"
        THEN VRes(vs1, NULL, NullRange, "run")
        ELSE IF r.exit = "useronly"
        THEN VRes([vs1 EXCEPT !.lock[a.ctx] = TRUE, !.lock[a.src_ctx] = TRUE],
                  NULL, NullRange, "run")
        ELSE VRes(vs1, NULL, NullRange, r.exit)

\* valloc.c:218-223
vmap_virt(av, a, slot) ==
    IF av.virt = NULL
    THEN VRes(av.vs, NULL, NullRange, "run")
    ELSE vmap_finish(vmap_pass(av.vs, [a EXCEPT !.virt = av.virt],
                               [pages_offset |-> 0, pages_mapped |-> 0, shards |-> <<>>]),
                     [a EXCEPT !.virt = av.virt], slot)

\* valloc.c:207-217
vmap_args(ctx, src_ctx, src_addr, size, flags) ==
    [ctx |-> ctx, src_ctx |-> src_ctx, src_addr |-> src_addr,
     src_aligned |-> ALIGN_DOWN(src_addr, PAGE_SIZE),
     src_offset |-> src_addr % PAGE_SIZE,
     size_pages |-> RDIV((size + (src_addr % PAGE_SIZE)) % (AddrSpace), PAGE_SIZE),
     virt |-> NULL, flags |-> flags]

\* valloc.c:200-298; a call with ctx = src_ctx takes the same lock twice.
vmap(vs, ctx, src_ctx, src_addr, size, flags, slot) ==
    IF vs.lock[ctx] \/ vs.lock[src_ctx] \/ ctx = src_ctx
    THEN VRes(vs, NULL, NullRange, "spin")
    ELSE vmap_virt(alloc_virt(vs, ctx,
                              vmap_args(ctx, src_ctx, src_addr, size, flags).size_pages,
                              NULL),
                   vmap_args(ctx, src_ctx, src_addr, size, flags), slot)

\* valloc.c:347-371: what valloc_new leaves in a context; bit 0 is set so
\* that the null pointer is never allocated.
valloc_new ==
    [lock |-> FALSE, ranges |-> NULL, bitmap |-> bitmap_set_n({}, 0, 1)]

VRet(op, r, ctx, src_ctx, addr, size, flags) ==
    [op |-> op, ret |-> r.ret, out |-> r.out, ctx |-> ctx, src_ctx |-> src_ctx,
     addr |-> addr, size |-> size, flags |-> flags, bitmap0 |-> bitmap]

valloc_init ==
    /\ bitmap = [ctx \in Ctxs |-> valloc_new.bitmap]
    /\ ranges = [ctx \in Ctxs |-> valloc_new.ranges]
    /\ lock = [ctx \in Ctxs |-> valloc_new.lock]
    /\ ptab = [ctx \in Ctxs |-> [p \in VPages |-> NotFound]]
    /\ recs = [s \in Slots |-> NullRange]
    /\ inuse = {}
    /\ pframes = {}
    /\ outs = {}
    /\ vstate = "run"
    /\ vcalls = 0
    /\ vret = [op |-> "init", ret |-> 0, out |-> NullRange, ctx |-> VA_KERNEL,
               src_ctx |-> VA_KERNEL, addr |-> NULL, size |-> 0, flags |-> {},
               bitmap0 |-> [ctx \in Ctxs |-> valloc_new.bitmap]]

SetValloc(vs) ==
    /\ bitmap' = vs.bitmap
    /\ ranges' = vs.ranges
    /\ lock' = vs.lock
    /\ ptab' = vs.ptab
    /\ recs' = vs.recs
    /\ inuse' = vs.inuse
    /\ pframes' = vs.pframes

\* What callers pass to valloc_at: one page or two; no address, an unaligned
\* address in page 2 (twice, so that requests overlap) or one in page 0; no
\* physical address or page 3; the flags that valloc_at and vfree test.
VallocCalls ==
    {[size |-> 1, virt_request |-> NULL, phys |-> NULL, flags |-> {"VM_USER"}],
     [size |-> 2, virt_request |-> NULL, phys |-> NULL,
      flags |-> {"VM_ZERO", "VM_FREE"}],
     [size |-> 1, virt_request |-> 2 * PAGE_SIZE + 100, phys |-> NULL, flags |-> {}],
     [size |-> 2, virt_request |-> 2 * PAGE_SIZE + 100, phys |-> 3 * PAGE_SIZE,
      flags |-> {"VM_NO_MAP", "VM_ZERO"}],
     [size |-> 1, virt_request |-> 100, phys |-> NULL, flags |-> {}]}

\* What callers pass to vmap: an aligned or an unaligned source address in
\* page 1, a size that ends in the same page or in a later one, the flags
\* that vmap and vfree test.
MapCalls ==
    {[src_addr |-> PAGE_SIZE + 4000, size |-> 200, flags |-> {"VM_FREE"}],
     [src_addr |-> PAGE_SIZE + 4000, size |-> 200,
      flags |-> {"VM_MAP_UNDERALLOC_WORKAROUND"}],
     [src_addr |-> PAGE_SIZE, size |-> PAGE_SIZE + 200, flags |-> {}],
     [src_addr |-> PAGE_SIZE + 4000, size |-> 96, flags |-> {"VM_MAP_USER_ONLY"}]}

\* what the size field of the shards holds when vfree reads it
ShardSizes == {0, PAGE_SIZE}

\* The addresses new_range() can get from kmalloc(sizeof(vmem_t)): a free
\* one that a pointer left in a list, a record or a copy still names, or a
\* free one that nothing names; these are alike and the lowest stands for
\* them.
new_range ==
    LET free == Slots \ inuse
        named == {ranges[ctx] : ctx \in Ctxs}
                 \cup {recs[s].next : s \in inuse} \cup {recs[s].previous : s \in inuse}
                 \cup {o.next : o \in outs} \cup {o.previous : o \in outs}
    IN  (free \cap named)
        \cup {s \in free \ named : \A t \in free \ named : s <= t}

\* a caller's valloc_at(ctx, &out, size, virt_request, phys, flags)
VallocAt(ctx, size, virt_request, phys, flags) ==
    /\ vstate = "run"
    /\ vcalls < MaxVCalls
    /\ virt_request \div PAGE_SIZE + size <= NPages
    /\ vcalls' = vcalls + 1
    /\ \E slot \in new_range :
       \E r \in {valloc_at(VNow, ctx, size, virt_request, phys, flags, slot)} :
           /\ SetValloc(r.vs)
           /\ vstate' = r.end
           /\ outs' = IF r.end = "run" /\ r.ret = 0 THEN outs \cup {r.out} ELSE outs
           /\ vret' = VRet("valloc_at", r, ctx, ctx, virt_request, size, flags)

\* a caller's vmap(ctx, &out, src_ctx, src_addr, size, flags)
Vmap(ctx, src_ctx, src_addr, size, flags) ==
    /\ vstate = "run"
    /\ vcalls < MaxVCalls
    /\ vcalls' = vcalls + 1
    /\ \E slot \in new_range :
       \E r \in {vmap(VNow, ctx, src_ctx, src_addr, size, flags, slot)} :
           /\ SetValloc(r.vs)
           /\ vstate' = r.end
           /\ outs' = IF r.end = "run" /\ r.ret # NULL THEN outs \cup {r.out} ELSE outs
           /\ vret' = VRet("vmap", r, ctx, src_ctx, src_addr, size, flags)

\* a caller's vfree(&out) of a copy it holds
Vfree(range) ==
    /\ vstate = "run"
    /\ range \in outs
    /\ \E shard_size \in ShardSizes :
       \E r \in {vfree(VNow, range, shard_size)} :
           /\ SetValloc(r.vs)
           /\ vstate' = r.end
           /\ vret' = VRet("vfree", r, range.ctx, range.ctx, range.addr, 0, range.flags)
    /\ outs' = outs \ {range}
    /\ UNCHANGED vcalls

\* The loop of valloc_cleanup from record range on (valloc.c:378-387):
\* pfree of the range when it has VM_FREE, kfree of the record.  A record
\* that kfree has released is not read ("uaf"); n bounds the walk of a list
\* that has become cyclic.
RECURSIVE cleanup_ranges(_, _, _)
cleanup_ranges(vs, range, n) ==
    IF range = NULL THEN VRes(vs, 0, NullRange, "run")
    ELSE IF range \notin vs.inuse \/ n = 0 THEN VRes(vs, 0, NullRange, "uaf")
    ELSE cleanup_ranges(
             [vs EXCEPT
                !.pframes = IF "VM_FREE" \in vs.recs[range].flags
                            THEN pfree(@, vs.recs[range].phys \div PAGE_SIZE,
                                       RDIV(vs.recs[range].size, PAGE_SIZE))
                            ELSE @,
                !.inuse = @ \ {range},
                !.recs[range] = NullRange],
             vs.recs[range].next, n - 1)

\* valloc.c:373-388: paging_rm_context removes the page tables; the bitmap,
\* ctx->ranges and the lock are left as they are.
valloc_cleanup(vs, ctx) ==
    cleanup_ranges(IF page_dir[ctx]
                   THEN [vs EXCEPT !.ptab[ctx] = [p \in VPages |-> NotFound]]
                   ELSE vs,
                   vs.ranges[ctx], MaxRanges)

\* a caller's valloc_cleanup(ctx), when the task of the context exits; the
\* copies its callers hold stay with them
VallocCleanup(ctx) ==
    /\ vstate = "run"
    /\ ctx # VA_KERNEL
    /\ ranges[ctx] # NULL
    /\ \E r \in {valloc_cleanup(VNow, ctx)} :
           /\ SetValloc(r.vs)
           /\ vstate' = r.end
           /\ vret' = VRet("valloc_cleanup", r, ctx, ctx, NULL, 0, {})
    /\ UNCHANGED <<outs, vcalls>>

(***************************************************************************)
(* Pipe (pipe.c)                                                           *)
(*                                                                         *)
(* pipe_read and pipe_write are modelled statement by statement; rd.pc and *)
(* wr.pc say where the reader's and the writer's call is.  The bytes a     *)
(* writer passes are numbered in the order in which writes are accepted,   *)
(* so that a byte lost, repeated or out of order shows in what is read.    *)
(***************************************************************************)

\* pipe.c:27 (0x5000); scaled down.
PIPE_BUFFER_SIZE == 4
\* data_size is a uint32_t and size a 32 bit size_t (pipe.c:31, 66): their
\* sum is taken modulo 2^32; the word is scaled down with the buffer.
WordMod == 16
\* the number of bytes of the accepted writes of one behaviour
MaxBytes == 6

O_NONBLOCK == "O_NONBLOCK"

MIN(a, b) == IF a < b THEN a ELSE b

\* memcpy(pipe->buffer + at, source, Len(source)); bytes that do not fit
\* into the buffer go to the memory behind it, which is not pipe state.
memcpy_to_buffer(buf, at, source) ==
    [i \in DOMAIN buf |-> IF i >= at /\ i < at + Len(source)
                        THEN source[i - at + 1] ELSE buf[i]]

\* memcpy(dest, pipe->buffer, size)
memcpy_from_buffer(buf, size) == [i \in 1 .. size |-> buf[i - 1]]

\* pipe_read_move that leaves the unread bytes where they are
pipe_read_move_none(buf, size, dsize) == buf

\* pipe.c:59-61: memmove(pipe->buffer, pipe->buffer + size, pipe->data_size)
pipe_read_move(buf, size, dsize) ==
    IF dsize # 0
    THEN [i \in DOMAIN buf |-> IF i < dsize /\ i + size \in DOMAIN buf
                             THEN buf[i + size] ELSE buf[i]]
    ELSE buf

\* how pipe_read was called: the flags of the descriptor, whether the
\* writing end is open in the calling task, data_size at the call
NoCall == [flags |-> {}, write_fp |-> TRUE, data_size |-> 0]

\* vfs_pipe, pipe.c:91-92: zmalloc clears the structure and the buffer.
pipe_init ==
    /\ buffer = [i \in 0 .. (PIPE_BUFFER_SIZE - 1) |-> 0]
    /\ data_size = 0
    /\ rd = [pc |-> "idle", req |-> 0, size |-> 0, dest |-> <<>>, before |-> 0,
             call |-> NoCall]
    /\ wr = [pc |-> "idle", size |-> 0, source |-> <<>>]
    /\ pstate = "run"
    /\ accepted = <<>>
    /\ delivered = <<>>
    /\ pret = [op |-> "init", ret |-> 0, errno |-> "", size |-> 0, bytes |-> <<>>,
               before |-> 0, after |-> 0, call |-> NoCall]

PRet(op, ret, errno, size, bytes, before, after) ==
    [op |-> op, ret |-> ret, errno |-> errno, size |-> size, bytes |-> bytes,
     before |-> before, after |-> after, call |-> NoCall]

\* pipe_read_tests that goes on to wait when the writing end is not open
pipe_read_tests_no_ebadf(dsize, flags, write_fp) ==
    IF dsize = 0 /\ O_NONBLOCK \in flags THEN "EAGAIN" ELSE ""

\* pipe.c:38-46: the two tests made before waiting, the errno they set or
\* "" when the call goes on; write_fp is what vfs_get_from_id finds for the
\* writing end in the calling task.
pipe_read_tests(dsize, flags, write_fp) ==
    IF dsize = 0 /\ O_NONBLOCK \in flags THEN "EAGAIN"
    ELSE IF dsize = 0 /\ ~write_fp THEN "EBADF"
    ELSE ""

\* pipe.c:35-46: the call and the two tests.
PipeReadCall(size, flags, write_fp) ==
    /\ pstate = "run"
    /\ rd.pc = "idle"
    /\ \E call \in {[flags |-> flags, write_fp |-> write_fp, data_size |-> data_size]},
          errno \in {pipe_read_tests(data_size, flags, write_fp)} :
          IF errno # ""
          THEN /\ pret' = [PRet("read", 0 - 1, errno, size, <<>>, data_size, data_size)
                               EXCEPT !.call = call]
               /\ UNCHANGED rd
          ELSE /\ rd' = [pc |-> "wait", req |-> size, size |-> size, dest |-> <<>>,
                         before |-> 0, call |-> call]
               /\ UNCHANGED pret
    /\ UNCHANGED <<buffer, data_size, wr, pstate, accepted, delivered>>

\* Mutant: pipe_read that does not wait for data.
PipeReadNoWait ==
    /\ pstate = "run"
    /\ rd.pc = "wait"
    /\ rd' = [rd EXCEPT !.pc = "copy",
                        !.size = IF @ > data_size THEN data_size ELSE @,
                        !.before = data_size]
    /\ UNCHANGED <<buffer, data_size, wr, pstate, accepted, delivered, pret>>

\* pipe.c:48-55: the loop ends when there is data; size is clamped to it.
PipeReadWait ==
    /\ pstate = "run"
    /\ rd.pc = "wait"
    /\ data_size # 0
    /\ rd' = [rd EXCEPT !.pc = "copy",
                        !.size = IF @ > data_size THEN data_size ELSE @,
                        !.before = data_size]
    /\ UNCHANGED <<buffer, data_size, wr, pstate, accepted, delivered, pret>>

\* pipe.c:57
PipeReadCopy ==
    /\ pstate = "run"
    /\ rd.pc = "copy"
    /\ rd' = [rd EXCEPT !.pc = "dec", !.dest = memcpy_from_buffer(buffer, rd.size)]
    /\ UNCHANGED <<buffer, data_size, wr, pstate, accepted, delivered, pret>>

\* pipe.c:58
PipeReadDec ==
    /\ pstate = "run"
    /\ rd.pc = "dec"
    /\ data_size' = data_size - MIN(data_size, rd.size)
    /\ rd' = [rd EXCEPT !.pc = "move"]
    /\ UNCHANGED <<buffer, wr, pstate, accepted, delivered, pret>>

\* pipe.c:59-63
PipeReadMove ==
    /\ pstate = "run"
    /\ rd.pc = "move"
    /\ buffer' = pipe_read_move(buffer, rd.size, data_size)
    /\ delivered' = delivered \o rd.dest
    /\ pret' = [PRet("read", rd.size, "", rd.req, rd.dest, rd.before, data_size)
                   EXCEPT !.call = rd.call]
    /\ rd' = [pc |-> "idle", req |-> 0, size |-> 0, dest |-> <<>>, before |-> 0,
              call |-> NoCall]
    /\ UNCHANGED <<data_size, wr, pstate, accepted>>

\* pipe.c:66-71: the call and the test for room; the sum is a 32 bit one.
PipeWriteCall(size) ==
    /\ pstate = "run"
    /\ wr.pc = "idle"
    /\ Len(accepted) + size <= MaxBytes \/ size > PIPE_BUFFER_SIZE
    /\ IF (data_size + size) % WordMod > PIPE_BUFFER_SIZE
       THEN /\ pret' = PRet("write", 0 - 1, "EFBIG", size, <<>>, data_size, data_size)
            /\ UNCHANGED wr
       ELSE /\ wr' = [pc |-> "copy", size |-> size,
                      source |-> [i \in 1 .. size |-> Len(accepted) + i]]
            /\ UNCHANGED pret
    /\ UNCHANGED <<buffer, data_size, rd, pstate, accepted, delivered>>

\* pipe.c:73.  A copy that does not end inside the buffer writes the kernel
\* memory behind it, all of the address space but PIPE_BUFFER_SIZE bytes or
\* less: the kernel faults and no call is made after it.
PipeWriteCopy ==
    /\ pstate = "run"
    /\ wr.pc = "copy"
    /\ buffer' = memcpy_to_buffer(buffer, data_size, wr.source)
    /\ pstate' = IF data_size + wr.size > PIPE_BUFFER_SIZE THEN "fault" ELSE "run"
    /\ wr' = [wr EXCEPT !.pc = "add"]
    /\ UNCHANGED <<data_size, rd, accepted, delivered, pret>>

\* pipe.c:74-75
PipeWriteAdd ==
    /\ pstate = "run"
    /\ wr.pc = "add"
    /\ data_size' = (data_size + wr.size) % WordMod
    /\ accepted' = accepted \o wr.source
    /\ pret' = PRet("write", wr.size, "", wr.size, wr.source, data_size,
                    (data_size + wr.size) % WordMod)
    /\ wr' = [pc |-> "idle", size |-> 0, source |-> <<>>]
    /\ UNCHANGED <<buffer, rd, pstate, delivered>>

\* the sizes that callers pass: nothing, a part of the buffer, all of it,
\* more than it holds, and the largest a word holds
PipeSizes == {0, 1, 2, PIPE_BUFFER_SIZE, PIPE_BUFFER_SIZE + 1, WordMod - 1}

(***************************************************************************)
(* Interrupt dispatch (interrupts.c)                                       *)
(*                                                                         *)
(* There is one CPU.  An interrupt that arrives while interrupt_callback   *)
(* or a handler runs suspends it and runs interrupt_callback on top of it; *)
(* istack holds the calls of interrupt_callback that have not returned,    *)
(* the running one last.  An interrupt may arrive between any two          *)
(* statements and while a handler runs.                                    *)
(***************************************************************************)

\* the number of interrupt vectors (256 in interrupts.c:26); scaled down.
NumVectors == 2
\* the number of interrupt_callback calls that are nested at any time
MaxNest == 3

Vectors == 0 .. (NumVectors - 1)

\* interrupts.c:33 that drops no interrupt
drop_interrupt_never(flag) == FALSE

\* interrupts.c:33: the test that drops an interrupt
drop_interrupt(flag) == flag

\* interrupts_init, interrupts.c:72-79, and the initializer of the static
\* inInterrupt, interrupts.c:31
interrupts_init ==
    /\ inInterrupt = FALSE
    /\ interruptHandlers = [n \in Vectors |-> 0]
    /\ istack = <<>>
    /\ iret = [op |-> "init", int_no |-> 0, dropped |-> FALSE, handled |-> FALSE,
               flag0 |-> FALSE, flag1 |-> FALSE]

ITop == istack[Len(istack)]

IPop == SubSeq(istack, 1, Len(istack) - 1)

ISetPc(pc) == [istack EXCEPT ![Len(istack)].pc = pc]

\* interrupts.c:65-69; handler 1 stands for the address of a handler.
interrupt_registerHandler(n) ==
    /\ interruptHandlers[n] = 0
    /\ interruptHandlers' = [interruptHandlers EXCEPT ![n] = 1]
    /\ UNCHANGED <<inInterrupt, istack, iret>>

\* irq_handler, interrupts.c:56-63: the stub calls interrupt_callback(regs).
InterruptArrives(int_no) ==
    /\ Len(istack) < MaxNest
    /\ istack' = Append(istack, [int_no |-> int_no, pc |-> "test", handled |-> FALSE,
                                 flag0 |-> inInterrupt])
    /\ UNCHANGED <<inInterrupt, interruptHandlers, iret>>

\* interrupts.c:33-34
InterruptTest ==
    /\ istack # <<>> /\ ITop.pc = "test"
    /\ IF drop_interrupt(inInterrupt)
       THEN /\ istack' = IPop
            /\ iret' = [op |-> "interrupt_callback", int_no |-> ITop.int_no,
                        dropped |-> TRUE, handled |-> FALSE,
                        flag0 |-> ITop.flag0, flag1 |-> inInterrupt]
       ELSE /\ istack' = ISetPc("set")
            /\ UNCHANGED iret
    /\ UNCHANGED <<inInterrupt, interruptHandlers>>

\* interrupts.c:35
InterruptSet ==
    /\ istack # <<>> /\ ITop.pc = "set"
    /\ inInterrupt' = TRUE
    /\ istack' = ISetPc("lookup")
    /\ UNCHANGED <<interruptHandlers, iret>>

\* interrupts.c:37-40: the handler is called when one is registered.
InterruptLookup ==
    /\ istack # <<>> /\ ITop.pc = "lookup"
    /\ istack' = IF interruptHandlers[ITop.int_no] # 0
                 THEN [istack EXCEPT ![Len(istack)].pc = "handler",
                                     ![Len(istack)].handled = TRUE]
                 ELSE ISetPc("clear")
    /\ UNCHANGED <<inInterrupt, interruptHandlers, iret>>

\* interrupts.c:40: handler(regs) returns.
InterruptHandlerReturns ==
    /\ istack # <<>> /\ ITop.pc = "handler"
    /\ istack' = ISetPc("clear")
    /\ UNCHANGED <<inInterrupt, interruptHandlers, iret>>

\* interrupts.c:43-44
InterruptClear ==
    /\ istack # <<>> /\ ITop.pc = "clear"
    /\ inInterrupt' = FALSE
    /\ istack' = IPop
    /\ iret' = [op |-> "interrupt_callback", int_no |-> ITop.int_no,
                dropped |-> FALSE, handled |-> ITop.handled,
                flag0 |-> ITop.flag0, flag1 |-> FALSE]
    /\ UNCHANGED interruptHandlers

(***************************************************************************)
(* IRQ entry (interrupts.c:46-64)                                          *)
(*                                                                         *)
(* The assembly stubs are not part of the sources: the IRQ stub calls      *)
(* irq_handler (interrupts.c:55) for the vectors from IRQ0 = 32 on, and    *)
(* the stub of the CPU exceptions calls interrupt_callback.  A call is a   *)
(* frame of istack that also says which EOIs it has sent.                  *)
(***************************************************************************)

\* the number of entries that are nested at any time
IrqNest == 2

\* hw/interrupts.h:25, 33
IRQ0 == 32
IRQ8 == 40

\* an exception, an IRQ of the master PIC and one of the slave PIC
IrqVectors == {IRQ0 - 1, IRQ0, IRQ8}

NoEoi == [int_no |-> 0, dropped |-> FALSE, slave |-> FALSE, master |-> FALSE]

IrqIdle == eoi = NoEoi

irq_init ==
    /\ inInterrupt = FALSE
    /\ interruptHandlers = [n \in IrqVectors |-> 0]
    /\ istack = <<>>
    /\ iret = [op |-> "init", int_no |-> 0, dropped |-> FALSE, handled |-> FALSE,
               flag0 |-> FALSE, flag1 |-> FALSE]
    /\ eoi = NoEoi

\* The stub enters irq_handler (interrupts.c:56) for an IRQ and
\* interrupt_callback (interrupts.c:28) for an exception.
IrqArrives(int_no) ==
    /\ Len(istack) < IrqNest
    /\ istack' = Append(istack, [int_no |-> int_no,
                                 pc |-> IF int_no >= IRQ0 THEN "eoi_slave" ELSE "test",
                                 handled |-> FALSE, flag0 |-> inInterrupt,
                                 slave |-> FALSE, master |-> FALSE])
    /\ UNCHANGED <<inInterrupt, interruptHandlers, iret, eoi>>

\* interrupts.c:59-60
IrqEoiSlave ==
    /\ istack # <<>> /\ ITop.pc = "eoi_slave"
    /\ istack' = [istack EXCEPT ![Len(istack)].pc = "eoi_master",
                                ![Len(istack)].slave = ITop.int_no >= 40]
    /\ UNCHANGED <<inInterrupt, interruptHandlers, iret, eoi>>

\* interrupts.c:62-63: EOI to the master, then interrupt_callback(regs)
IrqEoiMaster ==
    /\ istack # <<>> /\ ITop.pc = "eoi_master"
    /\ istack' = [istack EXCEPT ![Len(istack)].pc = "test",
                                ![Len(istack)].master = TRUE]
    /\ UNCHANGED <<inInterrupt, interruptHandlers, iret, eoi>>

\* When a statement of interrupt_callback returns from the entry, eoi
\* takes what the entry has sent.
IrqReturns ==
    eoi' = IF Len(istack') < Len(istack)
           THEN [int_no |-> ITop.int_no, dropped |-> iret'.dropped,
                 slave |-> ITop.slave, master |-> ITop.master]
           ELSE eoi

(***************************************************************************)
(* Spin locks (valloc.c, kmalloc.c)                                        *)
(*                                                                         *)
(* What valloc_at, vmap, vfree, valloc_get_range, kmalloc and kfree do to  *)
(* the spin locks:                                                         *)
(* each call is the sequence of spinlock_get and spinlock_release          *)
(* statements on the path it takes; which path it takes (an allocation     *)
(* that fails, a range that is missing) is an input of the call.  Tasks    *)
(* are preempted between any two of these statements.                      *)
(***************************************************************************)

\* the number of tasks that call into the allocators
NumTasks == 2

Tasks == 1 .. NumTasks

kmalloc_lock == "kmalloc_lock"

Locks == Ctxs \cup {kmalloc_lock}

\* the retry count that valloc.c passes to spinlock_get (valloc.c:109)
NoRetryLimit == 0 - 1

\* the retry count that kmalloc.c passes (kmalloc.c:281); only that there
\* is one matters here
KmallocRetries == 30

\* spinlock_get(lock, retries) at a line of the source; onfail says what the
\* caller does when it returns false: "return", "fault" (the caller stores
\* through the NULL it got from kmalloc) or "skip" (kfree returns and its
\* caller goes on)
Get(l, retries, onfail, line) ==
    [i |-> "get", l |-> l, retries |-> retries, onfail |-> onfail, line |-> line]

Release(l, line) ==
    [i |-> "release", l |-> l, retries |-> 0, onfail |-> "", line |-> line]

Panic(line) ==
    [i |-> "panic", l |-> kmalloc_lock, retries |-> 0, onfail |-> "", line |-> line]

\* _kmalloc, kmalloc.c:281-321, called from a line of valloc.c
kmalloc_locks(onfail) ==
    <<Get(kmalloc_lock, KmallocRetries, onfail, 281), Release(kmalloc_lock, 321)>>

\* kfree, kmalloc.c:364-370
kfree_locks == <<Get(kmalloc_lock, KmallocRetries, "skip", 364), Release(kmalloc_lock, 370)>>

\* valloc.c:139-171: the zeroing step of valloc_at
valloc_at_zero_locks(ctx, flags, path) ==
    IF "VM_ZERO" \notin flags \/ (ctx = VA_KERNEL /\ "VM_NO_MAP" \notin flags)
    THEN <<>>
    ELSE (IF ctx # VA_KERNEL THEN <<Get(VA_KERNEL, NoRetryLimit, "return", 147)>> ELSE <<>>)
         \o (IF path = "nozero"
             THEN <<Release(ctx, 154)>>
                  \o (IF ctx # VA_KERNEL THEN <<Release(VA_KERNEL, 156)>> ELSE <<>>)
             ELSE IF ctx # VA_KERNEL THEN <<Release(VA_KERNEL, 168)>> ELSE <<>>)

\* valloc.c:108-196; path is where the call leaves: "novirt" (alloc_virt
\* fails), "nophys" (palloc fails), "nozero" (bitmap_find fails), "ok"
valloc_at_locks(ctx, flags, path) ==
    <<Get(ctx, NoRetryLimit, "return", 109)>>
    \o (IF path = "novirt" THEN <<Release(ctx, 118)>>
        ELSE IF path = "nophys" THEN <<Release(ctx, 128)>>
        ELSE valloc_at_zero_locks(ctx, flags, path)
             \o (IF path = "nozero" THEN <<>>
                 ELSE kmalloc_locks("fault") \o <<Release(ctx, 194)>>))

\* valloc.c:200-298 for a mapping of one page; path is "novirt", "norange",
\* "panic", "useronly" or "ok"
vmap_locks(ctx, src_ctx, path) ==
    <<Get(ctx, NoRetryLimit, "return", 203), Get(src_ctx, NoRetryLimit, "return", 203)>>
    \o (IF path = "novirt" THEN <<Release(ctx, 220), Release(src_ctx, 221)>>
        ELSE kmalloc_locks("fault")
             \o (IF path = "norange" THEN <<Release(ctx, 253), Release(src_ctx, 254)>>
                 ELSE IF path = "panic" THEN <<Panic(260)>>
                 ELSE IF path = "useronly" THEN <<>>
                 ELSE kmalloc_locks("fault")
                      \o <<Release(ctx, 295), Release(src_ctx, 296)>>))

\* valloc.c:300-345 for a range with shards shards
vfree_locks(ctx, shards) ==
    <<Get(ctx, NoRetryLimit, "return", 304)>>
    \o (IF shards > 0 THEN kfree_locks ELSE <<>>)
    \o kfree_locks
    \o <<Release(ctx, 343)>>

\* valloc.c:78-86
valloc_get_range_locks(ctx) ==
    <<Get(ctx, NoRetryLimit, "return", 79), Release(ctx, 84)>>

\* the calls that tasks make; valloc_at leaves by "nozero" only where it
\* zeroes through the kernel's address space
LockCalls ==
    {[op |-> "valloc_at", prog |-> valloc_at_locks(c.ctx, c.flags, c.path)] :
         c \in {d \in [ctx : Ctxs, flags : {{}, {"VM_ZERO"}, {"VM_ZERO", "VM_NO_MAP"}},
                       path : {"novirt", "nophys", "nozero", "ok"}] :
                   d.path = "nozero" =>
                       ~("VM_ZERO" \notin d.flags
                             \/ (d.ctx = VA_KERNEL /\ "VM_NO_MAP" \notin d.flags))}}
    \cup {[op |-> "vmap", prog |-> vmap_locks(ctx, src_ctx, path)] :
              ctx \in Ctxs, src_ctx \in Ctxs,
              path \in {"novirt", "norange", "panic", "useronly", "ok"}}
    \cup {[op |-> "vfree", prog |-> vfree_locks(ctx, shards)] :
              ctx \in Ctxs, shards \in {0, 1}}
    \cup {[op |-> "valloc_get_range", prog |-> valloc_get_range_locks(ctx)] : ctx \in Ctxs}
    \cup {[op |-> "kmalloc", prog |-> kmalloc_locks("return")],
          [op |-> "kfree", prog |-> kfree_locks]}

NoLockCall == [op |-> "", prog |-> <<>>, held |-> {}]

\* valloc_new, valloc.c:348, and kmalloc.c:94: the locks start free.
locks_init ==
    /\ slock = [l \in Locks |-> 0]
    /\ ltask = [t \in Tasks |-> NoLockCall]
    /\ lstate = "run"

\* what is left of a call: when nothing is, it has returned and holds
\* nothing more under its name
LockRest(t, prog, has) ==
    [ltask EXCEPT ![t] = IF prog = <<>> THEN NoLockCall
                         ELSE [@ EXCEPT !.prog = prog, !.held = has]]

LockCall(t, call) ==
    /\ lstate = "run"
    /\ ltask[t].prog = <<>>
    /\ ltask' = [ltask EXCEPT ![t] = [op |-> call.op, prog |-> call.prog, held |-> {}]]
    /\ UNCHANGED <<slock, lstate>>

\* spinlock_get finds the lock free and takes it (test-and-set).
LockGet(t) ==
    /\ lstate = "run"
    /\ ltask[t].prog # <<>>
    /\ Head(ltask[t].prog).i = "get"
    /\ slock[Head(ltask[t].prog).l] = 0
    /\ slock' = [slock EXCEPT ![Head(ltask[t].prog).l] = 1]
    /\ ltask' = LockRest(t, Tail(ltask[t].prog),
                         ltask[t].held \cup {Head(ltask[t].prog).l})
    /\ UNCHANGED lstate

\* spinlock_get with a retry count finds the lock taken that many times
\* and returns false.
LockGiveUp(t) ==
    /\ lstate = "run"
    /\ ltask[t].prog # <<>>
    /\ Head(ltask[t].prog).i = "get"
    /\ Head(ltask[t].prog).retries # NoRetryLimit
    /\ slock[Head(ltask[t].prog).l] # 0
    /\ lstate' = IF Head(ltask[t].prog).onfail = "fault" THEN "fault" ELSE "run"
    /\ ltask' = LockRest(t, IF Head(ltask[t].prog).onfail = "skip"
                            THEN Tail(Tail(ltask[t].prog)) ELSE <<>>,
                         ltask[t].held)
    /\ UNCHANGED slock

\* spinlock_release stores 0.
LockRelease(t) ==
    /\ lstate = "run"
    /\ ltask[t].prog # <<>>
    /\ Head(ltask[t].prog).i = "release"
    /\ slock' = [slock EXCEPT ![Head(ltask[t].prog).l] = 0]
    /\ ltask' = LockRest(t, Tail(ltask[t].prog),
                         ltask[t].held \ {Head(ltask[t].prog).l})
    /\ UNCHANGED lstate

\* valloc.c:260: panic() stops the kernel.
LockPanic(t) ==
    /\ lstate = "run"
    /\ ltask[t].prog # <<>>
    /\ Head(ltask[t].prog).i = "panic"
    /\ lstate' = "panic"
    /\ UNCHANGED <<slock, ltask>>

(***************************************************************************)
(* ELF loader (elf.c)                                                      *)
(*                                                                         *)
(* A file is what the loader reads from it: whether the header can be      *)
(* read, whether its first 16 bytes are elf_magic, the header fields that  *)
(* load_file tests, and the program headers.  A program header carries,    *)
(* besides its fields, what happens when it is loaded: whether zmalloc_a   *)
(* returns memory (alloc) and whether bin_read gets filesz bytes (read).   *)
(* A path is absolute or not and has a sequence of names; NoPath stands   *)
(* for the null pointer in elf_ctx.interp.                                 *)
(***************************************************************************)

\* the number of elf_load_file calls of one behaviour
MaxElfCalls == 2

ENOEXEC == "ENOEXEC"

ELF_TYPE_EXEC == "ELF_TYPE_EXEC"

AbsPath(names) == [abs |-> TRUE, names |-> names]

RelPath(names) == [abs |-> FALSE, names |-> names]

NoPath == [abs |-> FALSE, names |-> <<>>]

\* the names of a path without "." and with ".." taken back
RECURSIVE normalize_names(_, _)
normalize_names(done, names) ==
    IF names = <<>> THEN done
    ELSE IF Head(names) = "." THEN normalize_names(done, Tail(names))
    ELSE IF Head(names) = ".."
    THEN normalize_names(IF done = <<>> THEN done ELSE SubSeq(done, 1, Len(done) - 1),
                         Tail(names))
    ELSE normalize_names(Append(done, Head(names)), Tail(names))

\* vfs_normalize_path(path, cwd): a relative path is taken from cwd
vfs_normalize_path(path, cwd) ==
    IF path.abs THEN AbsPath(normalize_names(<<>>, path.names))
    ELSE AbsPath(normalize_names(<<>>, cwd.names \o path.names))

NoFile == [exists |-> FALSE]

\* task_t as far as the loader writes it
elf_task_init ==
    [cwd |-> AbsPath(<<"bin">>), binary_path |-> NoPath, mem |-> <<>>, sbrk |-> 0,
     entry |-> 0, interp |-> NoPath]

ERes(task, ret) == [task |-> task, ret |-> ret]

\* elf.c:78-94: the segment was allocated and read
load_phead_read(task, phead) ==
    IF "PF_X" \in phead.flags /\ "PF_W" \in phead.flags THEN ERes(task, 0 - 1)
    ELSE IF ~phead.alloc \/ ~phead.read THEN ERes(task, 0 - 1)
    ELSE ERes([task EXCEPT
                  !.sbrk = IF ALIGN_DOWN(phead.vaddr, PAGE_SIZE) + VMEM_ALIGN(phead.memsz) > @
                           THEN ALIGN_DOWN(phead.vaddr, PAGE_SIZE) + VMEM_ALIGN(phead.memsz)
                           ELSE @,
                  !.mem = Append(@, [virt |-> ALIGN_DOWN(phead.vaddr, PAGE_SIZE),
                                     size |-> VMEM_ALIGN(phead.memsz),
                                     section |-> IF "PF_X" \in phead.flags
                                                 THEN "CODE" ELSE "DATA"])],
              0)

\* elf.c:67-85 with is_main: the buffer that load_phead allocates for a
\* segment and the bytes [from, to) of it that bin_read writes
phys_write(phead) ==
    [size |-> VMEM_ALIGN(phead.memsz),
     from |-> phead.vaddr - ALIGN_DOWN(phead.vaddr, PAGE_SIZE),
     to |-> (phead.vaddr - ALIGN_DOWN(phead.vaddr, PAGE_SIZE)) + phead.filesz]

\* elf.c:57-95 with is_main: sbrk is raised before the segment is read.
load_phead(task, phead) ==
    IF "PF_X" \in phead.flags /\ "PF_W" \in phead.flags THEN ERes(task, 0 - 1)
    ELSE IF ~phead.alloc THEN ERes(task, 0 - 1)
    ELSE IF ~phead.read
    THEN ERes([task EXCEPT
                  !.sbrk = IF ALIGN_DOWN(phead.vaddr, PAGE_SIZE) + VMEM_ALIGN(phead.memsz) > @
                           THEN ALIGN_DOWN(phead.vaddr, PAGE_SIZE) + VMEM_ALIGN(phead.memsz)
                           ELSE @],
              0 - 1)
    ELSE load_phead_read(task, phead)

\* elf.c:136-167: the loop of read_pheads with is_main
RECURSIVE read_pheads_from(_, _)
read_pheads_from(task, pheads) ==
    IF pheads = <<>> THEN ERes(task, 0)
    ELSE IF Head(pheads).type = "PT_LOAD"
    THEN IF load_phead(task, Head(pheads)).ret < 0
         THEN ERes(load_phead(task, Head(pheads)).task, 0 - 1)
         ELSE read_pheads_from(load_phead(task, Head(pheads)).task, Tail(pheads))
    ELSE IF Head(pheads).type = "PT_INTERP"
    THEN IF Head(pheads).read
         THEN ERes([task EXCEPT !.interp = Head(pheads).path], 0)
         ELSE ERes([task EXCEPT !.interp = NoPath], 0 - 1)
    ELSE IF Head(pheads).type = "PT_DYNAMIC" /\ ~Head(pheads).read
    THEN ERes(task, 0 - 1)
    ELSE read_pheads_from(task, Tail(pheads))

\* elf.c:126-168
read_pheads(task, file) ==
    IF ~file.pheads_read THEN ERes(task, 0 - 1)
    ELSE read_pheads_from(task, file.pheads)

\* elf.c:178-209 with is_main; fs is what vfs_open finds, by names
load_file(task, fs, path) ==
    IF path.names \notin DOMAIN fs THEN ERes(task, 0 - 1)
    ELSE IF ~fs[path.names].header_read THEN ERes(task, 0 - 1)
    ELSE IF ~fs[path.names].magic THEN ERes(task, 0 - 1)
    ELSE IF fs[path.names].type # ELF_TYPE_EXEC THEN ERes(task, 0 - 1)
    ELSE IF ~fs[path.names].machine \/ ~fs[path.names].version THEN ERes(task, 0 - 1)
    ELSE IF fs[path.names].entry = 0 THEN ERes(task, 0 - 1)
    ELSE IF fs[path.names].phnum = 0 \/ fs[path.names].shnum = 0 THEN ERes(task, 0 - 1)
    ELSE IF read_pheads(task, fs[path.names]).ret < 0
    THEN ERes(read_pheads(task, fs[path.names]).task, 0 - 1)
    ELSE ERes([read_pheads(task, fs[path.names]).task
                  EXCEPT !.entry = fs[path.names].entry], 0)

\* elf.c:222-228: the interpreter that the main file names
elf_load_interp(r) ==
    IF r.ret < 0 THEN [task |-> r.task, ret |-> 0 - 1, errno |-> ENOEXEC]
    ELSE [task |-> r.task, ret |-> 0, errno |-> ""]

\* elf.c:211-249
elf_load_file(task, fs, path) ==
    LET abs_path == vfs_normalize_path(path, task.cwd)
        named == [task EXCEPT !.binary_path = abs_path]
        main == load_file(named, fs, abs_path)
    IN  IF main.ret < 0 THEN [task |-> main.task, ret |-> 0 - 1, errno |-> ENOEXEC]
        ELSE IF main.task.interp # NoPath
        THEN elf_load_interp(load_file(main.task, fs, main.task.interp))
        ELSE [task |-> main.task, ret |-> 0, errno |-> ""]

\* program headers of the files loaded
PHead(type, flags, vaddr, memsz, alloc, read) ==
    [type |-> type, flags |-> flags, vaddr |-> vaddr, memsz |-> memsz, filesz |-> memsz,
     alloc |-> alloc, read |-> read, path |-> NoPath]

PCode == PHead("PT_LOAD", {"PF_X"}, PAGE_SIZE + 16, 100, TRUE, TRUE)

\* data with one page of file bytes and one byte that the file does not hold
PData == [PHead("PT_LOAD", {"PF_W"}, 2 * PAGE_SIZE, PAGE_SIZE + 1, TRUE, TRUE)
             EXCEPT !.filesz = PAGE_SIZE]

\* a page of code that does not start on a page boundary
PWide == PHead("PT_LOAD", {"PF_X"}, PAGE_SIZE + 16, PAGE_SIZE, TRUE, TRUE)

PInterp(read) ==
    [PHead("PT_INTERP", {}, 0, 0, TRUE, read) EXCEPT !.path = AbsPath(<<"lib", "ld">>)]

ElfPheads ==
    {<<PCode>>, <<PCode, PData>>, <<PData, PCode>>,
     <<PCode, [PData EXCEPT !.flags = {"PF_X", "PF_W"}]>>,
     <<PCode, [PData EXCEPT !.alloc = FALSE]>>,
     <<PCode, [PData EXCEPT !.read = FALSE]>>,
     <<[PCode EXCEPT !.read = FALSE]>>,
     <<PCode, PInterp(TRUE), PData>>,
     <<PInterp(FALSE)>>,
     <<PCode, PHead("PT_DYNAMIC", {}, 0, 0, TRUE, TRUE), PData>>,
     <<PCode, PHead("PT_DYNAMIC", {}, 0, 0, TRUE, FALSE)>>,
     <<PHead("PT_NOTE", {}, 0, 0, TRUE, TRUE), PCode>>,
     <<PWide>>, <<PData, PWide>>}

ElfFile(pheads) ==
    [header_read |-> TRUE, magic |-> TRUE, type |-> ELF_TYPE_EXEC, machine |-> TRUE,
     version |-> TRUE, entry |-> PAGE_SIZE + 32, phnum |-> Len(pheads), shnum |-> 1,
     pheads_read |-> TRUE, pheads |-> pheads]

\* well-formed files, and files that fail one test of load_file each
ElfFiles ==
    {ElfFile(p) : p \in ElfPheads}
    \cup {[ElfFile(<<PCode>>) EXCEPT !.header_read = FALSE],
          [ElfFile(<<PCode>>) EXCEPT !.magic = FALSE],
          [ElfFile(<<PCode>>) EXCEPT !.type = "ELF_TYPE_DYN"],
          [ElfFile(<<PCode>>) EXCEPT !.machine = FALSE],
          [ElfFile(<<PCode>>) EXCEPT !.version = FALSE],
          [ElfFile(<<PCode>>) EXCEPT !.entry = 0],
          [ElfFile(<<>>) EXCEPT !.phnum = 0],
          [ElfFile(<<PCode>>) EXCEPT !.shnum = 0],
          [ElfFile(<<PCode>>) EXCEPT !.pheads_read = FALSE]}

\* the interpreter, where there is one
ElfInterps ==
    {ElfFile(<<[PCode EXCEPT !.vaddr = 4 * PAGE_SIZE]>>),
     [ElfFile(<<PCode>>) EXCEPT !.magic = FALSE],
     ElfFile(<<[PCode EXCEPT !.vaddr = 4 * PAGE_SIZE],
               [PData EXCEPT !.vaddr = 5 * PAGE_SIZE, !.read = FALSE]>>)}

\* what vfs_open finds: /bin/a always, /lib/ld in some
ElfFs ==
    {(<<"bin", "a">> :> f) : f \in ElfFiles}
    \cup {(<<"bin", "a">> :> f) @@ (<<"lib", "ld">> :> g) : f \in ElfFiles, g \in ElfInterps}

ElfPaths == {AbsPath(<<"bin", "a">>), RelPath(<<"a">>), AbsPath(<<"bin", "b">>)}

elf_init ==
    /\ etask = elf_task_init
    /\ ecalls = 0
    /\ eret = [op |-> "init", ret |-> 0, errno |-> "", path |-> NoPath,
               task0 |-> elf_task_init, file |-> NoFile]

\* a caller's elf_load_file(task, path); fs is what the file system holds
ElfLoadFile(path, fs) ==
    /\ ecalls < MaxElfCalls
    /\ ecalls' = ecalls + 1
    /\ \E r \in {elf_load_file(etask, fs, path)} :
           /\ etask' = r.task
           /\ eret' = [op |-> "elf_load_file", ret |-> r.ret, errno |-> r.errno,
                       path |-> path, task0 |-> etask,
                       file |-> IF vfs_normalize_path(path, etask.cwd).names \in DOMAIN fs
                                THEN fs[vfs_normalize_path(path, etask.cwd).names] @@ [exists |-> TRUE]
                                ELSE NoFile]

(***************************************************************************)
(* ext2 (ext2.c)                                                           *)
(*                                                                         *)
(* The disk is fixed: a root directory, directories, symbolic links and a  *)
(* regular file, laid out for the block size of the superblock.  A byte of *)
(* the disk is named by its block and its place in the block, so that a    *)
(* read shows which bytes of the file it returned.  What the code reads    *)
(* from memory it has not written (a buffer from kmalloc that nothing was  *)
(* read into, the words behind inode->blocks) is an input of the call.     *)
(***************************************************************************)

\* the largest superblock->block_size of a behaviour: blocks of 1024 << s
MaxBlockShift == 1

ROOT_INODE == 2

EBADF == "EBADF"

EISDIR == "EISDIR"

superblock_to_blocksize(sb) == 1024 * (2 ^ sb.block_size)

\* ext2.c:199-216: the place where read_inode_block looks for the number
\* of logical block block_num; beyond is a word behind inode->blocks[14].
inode_block_slot(block_num) ==
    IF block_num >= 12 /\ block_num < 268
    THEN [kind |-> "single", i |-> block_num - 12, j |-> 0]
    ELSE IF block_num >= 268 /\ block_num < 12 + 256 * 256
    THEN [kind |-> "double", i |-> (block_num - 268) \div 256,
          j |-> (block_num - 268) % 256]
    ELSE IF block_num < 15
    THEN [kind |-> "direct", i |-> block_num, j |-> 0]
    ELSE [kind |-> "beyond", i |-> block_num, j |-> 0]

\* the inodes of the disk.  Inode 12 is a file with indirect blocks; its
\* tables are in blocks 200 and 201 and the tables of 201 from 300 on.
Inode(mode, size, blocks, link) ==
    [mode |-> mode, size |-> size, link |-> link,
     blocks |-> [i \in 0 .. 14 |-> IF i < Len(blocks) THEN blocks[i + 1] ELSE 0]]

DirInode(sb, n) == Inode("FT_IFDIR", superblock_to_blocksize(sb), <<20 + n>>, NoPath)

LinkInode(size, link) == Inode("FT_IFLNK", size, <<>>, link)

FileSize == 2500

inodes(sb) ==
    (2 :> DirInode(sb, 2)) @@ (3 :> DirInode(sb, 3)) @@ (5 :> DirInode(sb, 5))
    @@ (4 :> LinkInode(3, RelPath(<<".", "d">>)))
    @@ (6 :> Inode("FT_IFREG", FileSize,
                   [i \in 1 .. RDIV(FileSize, superblock_to_blocksize(sb)) |-> 99 + i],
                   NoPath))
    @@ (7 :> LinkInode(4, AbsPath(<<"a", "d">>)))
    @@ (9 :> [LinkInode(64, AbsPath(<<"a", "d", "c">>)) EXCEPT !.blocks[0] = 29])
    @@ (10 :> LinkInode(3, RelPath(<<"d", "c">>)))
    @@ (12 :> Inode("FT_IFREG", 80000 * 1024,
                    <<50, 51, 52, 53, 54, 55, 56, 57, 58, 59, 60, 61, 200, 201>>, NoPath))

DEnt(name, inode) == [name |-> name, inode |-> inode]

\* the directory entries in the block of a directory
dirents(block) ==
    IF block = 22
    THEN <<DEnt(".", 2), DEnt("..", 2), DEnt("a", 3), DEnt("long", 9), DEnt("big", 12)>>
    ELSE IF block = 23
    THEN <<DEnt(".", 3), DEnt("..", 2), DEnt("b", 4), DEnt("d", 5), DEnt("e", 7),
           DEnt("f", 10)>>
    ELSE IF block = 25
    THEN <<DEnt(".", 5), DEnt("..", 3), DEnt("c", 6)>>
    ELSE <<>>

\* entry i of the table of block numbers in a block
blocks_table(block, i) ==
    IF block = 200 THEN 1000 + i
    ELSE IF block = 201 THEN 300 + i
    ELSE IF block >= 300 /\ block < 300 + 4096 THEN 100000 + (block - 300) * 4096 + i
    ELSE 0

\* ext2.c:189-230: the number of the block that is read, NULL when
\* read_inode_block returns NULL; garbage is the word found behind
\* inode->blocks.
read_inode_block(sb, inode, block_num, garbage) ==
    IF block_num > sb.block_count THEN NULL
    ELSE IF inode_block_slot(block_num).kind = "single"
    THEN blocks_table(inode.blocks[12], inode_block_slot(block_num).i)
    ELSE IF inode_block_slot(block_num).kind = "double"
    THEN blocks_table(blocks_table(inode.blocks[13], inode_block_slot(block_num).i),
                      inode_block_slot(block_num).j)
    ELSE IF inode_block_slot(block_num).kind = "direct"
    THEN inode.blocks[block_num]
    ELSE garbage

\* ext2.c:233-246: the blocks read into buf, in order, or <<NULL>>
RECURSIVE read_inode_blocks_from(_, _, _, _, _)
read_inode_blocks_from(sb, inode, i, num, garbage) ==
    IF i >= num THEN <<>>
    ELSE IF read_inode_block(sb, inode, i, garbage) = NULL THEN <<NULL>>
    ELSE LET rest == read_inode_blocks_from(sb, inode, i + 1, num, garbage)
         IN  IF rest = <<NULL>> THEN <<NULL>>
             ELSE <<read_inode_block(sb, inode, i, garbage)>> \o rest

read_inode_blocks(sb, inode, num, garbage) ==
    read_inode_blocks_from(sb, inode, 0, num, garbage)

\* ext2.c:294-315: the search for name pch in the entries; 0 when an entry
\* with name_len 0 ends it
RECURSIVE find_dirent(_, _)
find_dirent(entries, pch) ==
    IF entries = <<>> THEN 0
    ELSE IF Head(entries).name = pch THEN Head(entries).inode
    ELSE find_dirent(Tail(entries), pch)

\* the entries in the blocks read for a directory
RECURSIVE dirents_of(_)
dirents_of(blocks) ==
    IF blocks = <<>> THEN <<>> ELSE dirents(Head(blocks)) \o dirents_of(Tail(blocks))

\* ext2.c:272-318: the loop of ext2_open from the inode current with names
\* left to find.  The search runs over what was read into dirent_block and
\* then over what follows in memory (after): for a directory the bytes
\* behind the buffer, for an inode of less than a block the buffer that
\* kmalloc returned, which nothing was read into.
RECURSIVE ext2_walk(_, _, _, _)
ext2_walk(sb, current, names, after) ==
    IF names = <<>> THEN current
    ELSE LET read == read_inode_blocks(sb, inodes(sb)[current],
                                       inodes(sb)[current].size
                                           \div superblock_to_blocksize(sb), 0)
         IN  IF read = <<NULL>> THEN 0
             ELSE IF find_dirent(dirents_of(read) \o after, Head(names)) \notin DOMAIN inodes(sb)
             THEN 0
             ELSE ext2_walk(sb, find_dirent(dirents_of(read) \o after, Head(names)),
                            Tail(names), after)

\* ext2.c:345-352: the path up to the last '/'.  The loop compares the
\* pointer into the copy with path, another allocation: it runs when the
\* copy lies above path (above) and leaves the copy whole when not.
symlink_base_path(path, above) ==
    IF above /\ path.names # <<>>
    THEN AbsPath(SubSeq(path.names, 1, Len(path.names) - 1))
    ELSE path

\* ext2.c:249-370: the inode number, 0 when the path is not resolved
RECURSIVE ext2_open(_, _, _, _)
ext2_open_symlink(sb, path, inode_num, after, above) ==
    IF inodes(sb)[inode_num].mode # "FT_IFLNK" THEN inode_num
    ELSE IF inodes(sb)[inode_num].size > 60 THEN 0
    ELSE IF ~inodes(sb)[inode_num].link.abs
    THEN ext2_open(sb, vfs_normalize_path(inodes(sb)[inode_num].link,
                                          symlink_base_path(path, above)),
                   after, above)
    ELSE ext2_open(sb, inodes(sb)[inode_num].link, after, above)

ext2_open(sb, path, after, above) ==
    IF path = NoPath THEN 0
    ELSE IF path.names = <<>> THEN ROOT_INODE
    ELSE IF ext2_walk(sb, ROOT_INODE, path.names, after) = 0 THEN 0
    ELSE ext2_open_symlink(sb, path, ext2_walk(sb, ROOT_INODE, path.names, after),
                           after, above)

\* byte i of what a read copied to dest: the block it is from and its
\* place in the block
DestByte(sb, r, i) ==
    <<r.tmp[i \div superblock_to_blocksize(sb) + 1], i % superblock_to_blocksize(sb)>>

\* byte p of the file of an inode
FileByte(sb, inode, p) ==
    <<inode.blocks[p \div superblock_to_blocksize(sb)], p % superblock_to_blocksize(sb)>>

XRes(ret, errno, tmp) == [ret |-> ret, errno |-> errno, tmp |-> tmp]

\* ext2.c:415-447: dest gets the first size bytes of tmp
ext2_read_blocks(sb, inode, offset, size) ==
    LET num_blocks == RDIV(size + offset, superblock_to_blocksize(sb))
        read == read_inode_blocks(sb, inode, num_blocks, 0)
    IN  IF read = <<NULL>> THEN XRes(0, "", <<>>)
        ELSE XRes(size, "", read)

\* ext2.c:373-448
ext2_read_file(sb, f, size) ==
    IF f.inode = 0 THEN XRes(0 - 1, EBADF, <<>>)
    ELSE IF inodes(sb)[f.inode].mode # "FT_IFREG" THEN XRes(0 - 1, EISDIR, <<>>)
    ELSE IF inodes(sb)[f.inode].size < 1 THEN XRes(0, "", <<>>)
    ELSE ext2_read_blocks(sb, inodes(sb)[f.inode], f.offset,
                          MIN(size, inodes(sb)[f.inode].size))

\* the logical blocks asked of read_inode_block: the ends of the ranges of
\* the direct, single indirect and double indirect blocks for tables of
\* 256 and of 512 entries, and the last block of a file system of 70000
ExtBlockNums ==
    {0, 11, 12, 14, 15, 267, 268, 523, 524, 12 + 256 * 256 - 1, 12 + 256 * 256,
     268 + 256 * 256 - 1, 268 + 256 * 256, 70000, 70001}

ExtBlockCounts == {8192, 70000}

\* the paths opened: plain ones, ones with a link in the middle or at the
\* end, a link with a long target, a missing name, the root, no path
ExtPaths ==
    {AbsPath(<<"a", "d", "c">>), AbsPath(<<"a", "b", "c">>), AbsPath(<<"a", "e", "c">>),
     AbsPath(<<"a", "f">>), AbsPath(<<"a", "b">>), AbsPath(<<"a", "e">>),
     AbsPath(<<"long">>), AbsPath(<<"a", "x">>), AbsPath(<<"a">>), AbsPath(<<"big">>),
     AbsPath(<<>>), NoPath}

\* what the search finds in memory that was not read from the disk: an
\* entry with name_len 0 at once, or entries first
ExtAfter == {<<>>, <<DEnt("c", 6)>>}

ExtSizes == {0, 100, 924, FileSize, 3000}

\* the offsets at which callers read: the start, the ends of a first read
\* of 100 bytes and of a second one of 924, and one near the end
ExtOffsets == {0, 100, 1024, 2400}

\* the read that fails in a call: none, that of the inode, of a block of
\* data, of a table of block numbers
IoFails == {"none", "inode", "block", "table"}

\* the state after ext2_init has read superblock sb, with nothing opened
ext2_mount(sb) ==
    /\ superblock = sb
    /\ fp = [inode |-> 0, offset |-> 0]
    /\ xret = [op |-> "init"]

ext2_init ==
    \E sb \in [block_size : 0 .. MaxBlockShift, block_count : ExtBlockCounts] :
        ext2_mount(sb)

\* vfs_open(path) on the ext2 mount: the descriptor gets the inode that
\* ext2_open returns and offset 0
Ext2Open(path, after, above) ==
    /\ \E r \in {ext2_open(superblock, path, after, above)} :
           /\ fp' = IF r # 0 THEN [inode |-> r, offset |-> 0] ELSE fp
           /\ xret' = [op |-> "open", path |-> path, ret |-> r, above |-> above]
    /\ UNCHANGED superblock

\* vfs_seek(fd, offset, VFS_SEEK_SET), as bin_read calls it (elf.c:44)
VfsSeek(offset) ==
    /\ fp.inode # 0
    /\ fp' = [fp EXCEPT !.offset = offset]
    /\ xret' = [op |-> "seek", ret |-> offset]
    /\ UNCHANGED superblock

\* vfs_read(fd, dest, size), as bin_read calls it (elf.c:45): the read
\* callback of the mount, and the offset moved on by what it returned
VfsRead(size) ==
    /\ fp.inode # 0
    /\ fp.offset \in ExtOffsets
    /\ \E r \in {ext2_read_file(superblock, fp, size)} :
           /\ fp' = [fp EXCEPT !.offset = IF r.ret > 0 THEN @ + r.ret ELSE @]
           /\ xret' = [op |-> "read", size |-> size, fp |-> fp, ret |-> r.ret,
                       errno |-> r.errno, tmp |-> r.tmp]
    /\ UNCHANGED superblock

\* read_inode_block(inode, block_num, buf) for the inode of /big
ReadInodeBlock(block_num, garbage) ==
    /\ xret' = [op |-> "read_inode_block", block_num |-> block_num,
                slot |-> inode_block_slot(block_num),
                ret |-> read_inode_block(superblock, inodes(superblock)[12], block_num,
                                         garbage)]
    /\ UNCHANGED <<superblock, fp>>

(***************************************************************************)
(* ext2_init and the mount at "/" (fs/ext2.c and fs/ext2/ext2.c)           *)
(*                                                                         *)
(* The tree holds two files that define ext2_init, both under              *)
(* ENABLE_EXT2; build says which of them is compiled.  The disk is the     *)
(* superblock as it is on the disk and the mode of one inode.              *)
(***************************************************************************)

SUPERBLOCK_MAGIC == 61267

SUPERBLOCK_STATE_CLEAN == 1

SUPERBLOCK_STATE_DIRTY == 2

\* the largest mode that a caller of chmod passes
MaxMode == 1

Builds == {"fs/ext2.c", "fs/ext2/ext2.c"}

NoMount == [path |-> "", callbacks |-> {}]

\* the superblocks found on a disk
DiskSuperblocks ==
    [magic : {SUPERBLOCK_MAGIC, 0},
     state : {SUPERBLOCK_STATE_CLEAN, SUPERBLOCK_STATE_DIRTY},
     features_incompat : {0, 2},
     mount_count : {7, 65535},
     mount_time : {0}]

\* what ext2_init finds: the read that fails, none of them, the
\* superblock's, the blockgroup table's or the root inode's
SuperReads == {"ok", "superblock", "table", "root"}

MRes(d, sb, m, at) == [disk |-> d, sb |-> sb, mount |-> m, at |-> at]

\* fs/ext2.c:596 and fs/ext2/ext2.c:195-211: the callbacks passed to vfs_mount
ext2_callbacks(b) ==
    IF b = "fs/ext2.c" THEN {"open", "stat", "read", "getdents"}
    ELSE {"open", "stat", "read", "write", "getdents", "unlink", "chmod"}

\* fs/ext2/ext2.c:196-198: the superblock counted and stamped in memory
\* and written back; mount_count is a uint16_t
write_superblock(d, sb, now) ==
    [d EXCEPT !.superblock = [sb EXCEPT !.mount_count = (@ + 1) % 65536,
                                        !.mount_time = now]]

\* fs/ext2.c:521-597 and fs/ext2/ext2.c:117-211, from the test of the magic
\* on; sb is the superblock in memory.  The return in the test of
\* features_incompat is commented out in both files.
ext2_init_tests(b, d, sb, fails, now) ==
    IF sb.magic # SUPERBLOCK_MAGIC THEN MRes(d, sb, NoMount, "magic")
    ELSE IF sb.state # SUPERBLOCK_STATE_CLEAN THEN MRes(d, sb, NoMount, "state")
    ELSE IF fails = "table" THEN MRes(d, sb, NoMount, "table")
    ELSE IF fails = "root" THEN MRes(d, sb, NoMount, "root")
    ELSE IF b = "fs/ext2.c"
    THEN MRes(d, sb, [path |-> "/", callbacks |-> ext2_callbacks(b)], "mount")
    ELSE MRes(write_superblock(d, sb, now),
              write_superblock(d, sb, now).superblock,
              [path |-> "/", callbacks |-> ext2_callbacks(b)], "mount")

\* fs/ext2.c:514-598 and fs/ext2/ext2.c:112-211.  When the read of the
\* superblock fails, fs/ext2.c returns; fs/ext2/ext2.c does not look at
\* what vfs_block_read returned and tests what kmalloc left in the buffer
\* (garbage).
ext2_init_build(b, d, fails, garbage, now) ==
    IF fails = "superblock"
    THEN IF b = "fs/ext2.c" THEN MRes(d, garbage, NoMount, "superblock")
         ELSE ext2_init_tests(b, d, garbage, "ok", now)
    ELSE ext2_init_tests(b, d, d.superblock, fails, now)

\* fs/ext2/ext2.c:34-50 with the inode resolved and read: the mode keeps
\* its file type and gets the new bits, and the inode is written back
ext2_chmod(d, mode) == [d EXCEPT !.mode = [type |-> @.type, bits |-> mode]]

mount_init ==
    /\ build \in Builds
    /\ mdisk \in [superblock : DiskSuperblocks, mode : {[type |-> "FT_IFREG", bits |-> 0]}]
    /\ msuper = [magic |-> 0, state |-> 0, features_incompat |-> 0, mount_count |-> 0,
                 mount_time |-> 0]
    /\ mount = NoMount
    /\ mret = [op |-> "boot", at |-> "", fails |-> "ok"]

MountIdle ==
    /\ build = "fs/ext2.c"
    /\ mdisk = [superblock |-> [magic |-> SUPERBLOCK_MAGIC, state |-> SUPERBLOCK_STATE_CLEAN,
                                features_incompat |-> 0, mount_count |-> 7,
                                mount_time |-> 0],
                mode |-> [type |-> "FT_IFREG", bits |-> 0]]
    /\ msuper = [magic |-> 0, state |-> 0, features_incompat |-> 0, mount_count |-> 0,
                 mount_time |-> 0]
    /\ mount = NoMount
    /\ mret = [op |-> "boot", at |-> "", fails |-> "ok"]

\* ext2_init(), called once when the kernel starts
Ext2Init(fails, garbage, now) ==
    /\ mret.op = "boot"
    /\ \E r \in {ext2_init_build(build, mdisk, fails, garbage, now)} :
           /\ mdisk' = r.disk
           /\ msuper' = r.sb
           /\ mount' = r.mount
           /\ mret' = [op |-> "ext2_init", at |-> r.at, fails |-> fails]
    /\ UNCHANGED build

\* vfs_chmod of a path on the mount: its chmod callback, if it has one
VfsChmod(mode) ==
    /\ "chmod" \in mount.callbacks
    /\ mdisk' = ext2_chmod(mdisk, mode)
    /\ mret' = [op |-> "chmod", at |-> "", fails |-> "ok"]
    /\ UNCHANGED <<build, msuper, mount>>

\* vfs_stat of a path on the mount: ext2_stat reads the inode
VfsStat ==
    /\ "stat" \in mount.callbacks
    /\ mret' = [op |-> "stat", at |-> mdisk.mode, fails |-> "ok"]
    /\ UNCHANGED <<build, mdisk, msuper, mount>>

(***************************************************************************)
(* ext2 calls on a disk whose reads can fail (fs/ext2.c)                   *)
(*                                                                         *)
(* ext2_open is modelled statement by statement, io.pc says where it is;   *)
(* ext2_stat, ext2_getdents and ext2_read_file are one step each.  Whether *)
(* ide_read_sector succeeds is an input of every step that reads.  The     *)
(* root inode is cached by ext2_init and is not read from the disk.        *)
(***************************************************************************)

IoIdle ==
    [op |-> "", pc |-> "idle", path |-> NoPath, names |-> <<>>, cur |-> 0,
     failed |-> FALSE, ret |-> 0, errno |-> ""]

io_init == io = IoIdle

IoReturn(c, ret, errno, failed) ==
    [c EXCEPT !.pc = "return", !.ret = ret, !.errno = errno, !.failed = failed]

\* fs/ext2.c:249-271: ext2_open up to the loop
IoOpenCall(path) ==
    /\ io.pc = "idle"
    /\ io' = IF path = NoPath
             THEN IoReturn([IoIdle EXCEPT !.op = "open", !.path = path], 0, "", FALSE)
             ELSE IF path.names = <<>>
             THEN IoReturn([IoIdle EXCEPT !.op = "open", !.path = path], ROOT_INODE, "",
                           FALSE)
             ELSE [IoIdle EXCEPT !.op = "open", !.pc = "read_inode", !.path = path,
                                 !.names = path.names]

\* fs/ext2.c:272-276 and read_inode (151-186): when the read fails the
\* loop is continued with pch as it was
IoOpenReadInode(ok) ==
    /\ io.op = "open"
    /\ io.pc = "read_inode"
    /\ io' = IF io.cur # 0 /\ io.cur # ROOT_INODE /\ ~ok
             THEN [io EXCEPT !.failed = TRUE]
             ELSE [io EXCEPT !.pc = "read_blocks"]

\* fs/ext2.c:278-318: the blocks of the directory are read and searched
IoOpenReadBlocks(ok, after) ==
    /\ io.op = "open"
    /\ io.pc = "read_blocks"
    /\ \E inode \in {inodes(superblock)[IF io.cur = 0 THEN ROOT_INODE ELSE io.cur]} :
       \E read \in {read_inode_blocks(superblock, inode,
                                      inode.size \div superblock_to_blocksize(superblock),
                                      0)} :
       \E found \in {find_dirent(dirents_of(read) \o after, Head(io.names))} :
           io' = IF read # <<>> /\ ~ok THEN IoReturn(io, 0, "", TRUE)
                 ELSE IF read = <<NULL>> \/ found \notin DOMAIN inodes(superblock)
                 THEN IoReturn(io, 0, "", io.failed)
                 ELSE [io EXCEPT !.cur = found, !.names = Tail(@),
                                 !.pc = IF Len(io.names) = 1 THEN "symlink"
                                        ELSE "read_inode"]

\* fs/ext2.c:320-369: the inode found is read, and a link is followed by
\* a call of ext2_open with the new path
IoOpenSymlink(ok, above) ==
    /\ io.op = "open"
    /\ io.pc = "symlink"
    /\ \E inode \in {inodes(superblock)[io.cur]} :
       \E new_path \in {IF inode.link.abs THEN inode.link
                        ELSE vfs_normalize_path(inode.link,
                                                symlink_base_path(io.path, above))} :
           io' = IF io.cur # ROOT_INODE /\ ~ok THEN IoReturn(io, 0, "", TRUE)
                 ELSE IF inode.mode # "FT_IFLNK" THEN IoReturn(io, io.cur, "", io.failed)
                 ELSE IF inode.size > 60 THEN IoReturn(io, 0, "", io.failed)
                 ELSE IF new_path.names = <<>>
                 THEN IoReturn(io, ROOT_INODE, "", io.failed)
                 ELSE [io EXCEPT !.pc = "read_inode", !.path = new_path,
                                 !.names = new_path.names, !.cur = 0]

\* the caller has the result
IoReturns ==
    /\ io.pc = "return"
    /\ io' = IoIdle

\* fs/ext2.c:485-512
IoStat(inode_num, ok) ==
    /\ io.pc = "idle"
    /\ io' = IF inode_num # ROOT_INODE /\ ~ok
             THEN IoReturn([IoIdle EXCEPT !.op = "stat", !.cur = inode_num], 0 - 1, "", TRUE)
             ELSE IoReturn([IoIdle EXCEPT !.op = "stat", !.cur = inode_num], 0, "", FALSE)

\* fs/ext2.c:450-483; fails is the read that fails
IoGetdents(inode_num, size, fails) ==
    /\ io.pc = "idle"
    /\ \E c \in {[IoIdle EXCEPT !.op = "getdents", !.cur = inode_num]} :
           io' = IF size % 1024 # 0 THEN IoReturn(c, 0, "", FALSE)
                 ELSE IF inode_num # ROOT_INODE /\ fails = "inode"
                 THEN IoReturn(c, 0, "", TRUE)
                 ELSE IF inodes(superblock)[inode_num].mode # "FT_IFDIR"
                 THEN IoReturn(c, 0, "", FALSE)
                 ELSE IF size \div superblock_to_blocksize(superblock) > 0
                         /\ fails = "block"
                 THEN IoReturn(c, 0, "", TRUE)
                 ELSE IF read_inode_blocks(superblock, inodes(superblock)[inode_num],
                                           size \div superblock_to_blocksize(superblock),
                                           0) = <<NULL>>
                 THEN IoReturn(c, 0, "", FALSE)
                 ELSE IoReturn(c, 1, "", FALSE)

\* fs/ext2.c:373-448 at offset 0; fails is the read that fails.  When the
\* read of a table of block numbers fails, read_inode_block indexes the
\* null pointer that direct_read_blocks returned (fs/ext2.c:202-203).
IoRead(inode_num, size, fails) ==
    /\ io.pc = "idle"
    /\ \E c \in {[IoIdle EXCEPT !.op = "read", !.cur = inode_num]} :
       \E r \in {ext2_read_file(superblock, [inode |-> inode_num, offset |-> 0], size)} :
           io' = IF inode_num # ROOT_INODE /\ fails = "inode"
                 THEN IoReturn(c, 0 - 1, EBADF, TRUE)
                 ELSE IF r.tmp = <<>> \/ fails \notin {"block", "table"}
                 THEN IoReturn(c, r.ret, r.errno, FALSE)
                 ELSE IF fails = "table" /\ Len(r.tmp) > 12
                 THEN [IoReturn(c, 0, "", TRUE) EXCEPT !.pc = "null"]
                 ELSE IoReturn(c, 0, "", TRUE)

(***************************************************************************)
(* sleep_ticks (lib/generic.h)                                             *)
(*                                                                         *)
(* pit_tick is counted up by the timer interrupt.  The loop of sleep_ticks *)
(* halts until the next interrupt and tests again, so it sees every value  *)
(* of pit_tick: sl.seen is the value it has tested last.                   *)
(***************************************************************************)

\* until is a uint32_t (generic.h:78): the sum is taken modulo 2^32; the
\* word is scaled down.
TickMod == 16

SleepIdle == [pc |-> "idle", start |-> 0, timeout |-> 0, until |-> 0, seen |-> 0]

sleep_init ==
    /\ pit_tick \in 0 .. (TickMod - 1)
    /\ sl = SleepIdle

SleepOff ==
    /\ pit_tick = 0
    /\ sl = SleepIdle

\* the timer interrupt
PitTick ==
    /\ sl.pc \in {"test", "wait"} => sl.seen = pit_tick
    /\ pit_tick' = (pit_tick + 1) % TickMod
    /\ UNCHANGED sl

\* generic.h:78
SleepTicks(timeout) ==
    /\ sl.pc \in {"idle", "done"}
    /\ sl' = [pc |-> "test", start |-> pit_tick, timeout |-> timeout,
              until |-> (pit_tick + timeout) % TickMod, seen |-> pit_tick]
    /\ UNCHANGED pit_tick

\* generic.h:79: the loop goes on while pit_tick <= until
sleep_loop_ends(tick, until) == ~(tick <= until)

\* generic.h:79-81: the test of the loop, made when sleep_ticks is called
\* and after every interrupt that ends a hlt
SleepTest ==
    /\ sl.pc \in {"test", "wait"}
    /\ sl.pc = "wait" => sl.seen # pit_tick
    /\ sl' = [sl EXCEPT !.pc = IF sleep_loop_ends(pit_tick, sl.until) THEN "done"
                               ELSE "wait",
                        !.seen = pit_tick]
    /\ UNCHANGED pit_tick

(***************************************************************************)
(* execve (tasks/syscalls/execve.c)                                        *)
(*                                                                         *)
(* An array of strings is a function from its indices to the strings,      *)
(* numbered from 1, and NULL.  A task is its pid with the argc and argv it *)
(* was made with; its initial stack holds argc and argv[0..argc-1].        *)
(***************************************************************************)

\* the number of execve calls of one behaviour
MaxExecs == 2

\* execve.c:29: the entries that check_array looks at
CheckArrayLimit == 200

\* an array of n strings and the NULL behind them
StringArray(n) == [i \in 0 .. n |-> IF i < n THEN i + 1 ELSE NULL]

\* execve.c:28-34: the loop returns true at the first NULL it finds among
\* the first 200 entries
check_array(array) ==
    \E i \in 0 .. (CheckArrayLimit - 1) : i \in DOMAIN array /\ array[i] = NULL

\* the words that the initial stack of a task made with argc and argv
\* holds: argc and argv[0..argc-1]; behind is the word found behind the
\* array
initial_stack(argc, argv, behind) ==
    <<argc>> \o [i \in 1 .. argc |-> IF (i - 1) \in DOMAIN argv THEN argv[i - 1]
                                      ELSE behind]

\* no task: the null pointer
NoTask == [pid |-> 0, argc |-> 0, environ |-> StringArray(0), stack |-> <<>>]

\* elf_load(data, name, environ, argv, argc): the new task, none when data
\* is not an executable
elf_load(data, pid, environ, argv, argc, behind) ==
    IF data # "elf" THEN NoTask
    ELSE [pid |-> pid, argc |-> argc, environ |-> environ,
          stack |-> initial_stack(argc, argv, behind)]

\* execve.c:36-61: the scheduler's tasks after the call and what the call
\* returned; data is what vfs_load_file returned, "none" for NULL
execve(tasks, task, argv, env, data, pid, behind) ==
    IF ~check_array(argv) \/ ~check_array(env)
    THEN [tasks |-> tasks, ret |-> 0 - 1, new_task |-> NoTask]
    ELSE IF data = "none"
    THEN [tasks |-> tasks, ret |-> 0 - 1, new_task |-> NoTask]
    ELSE IF elf_load(data, pid, env, argv, 2, behind) = NoTask
    THEN [tasks |-> tasks, ret |-> 0 - 1, new_task |-> NoTask]
    ELSE [tasks |-> (tasks \cup {pid}) \ {task}, ret |-> 0,
          new_task |-> elf_load(data, pid, env, argv, 2, behind)]

ExecArgvs == {StringArray(n) : n \in {0, 1, 2, 3, CheckArrayLimit - 1, CheckArrayLimit}}

ExecEnvs == {StringArray(n) : n \in {0, 1, CheckArrayLimit}}

ExecData == {"none", "elf", "text"}

exec_init ==
    /\ sched = {1}
    /\ curtask = 1
    /\ exret = [op |-> "init", ret |-> 0, new_task |-> NoTask, argv |-> StringArray(0),
                env |-> StringArray(0), data |-> "none", tasks0 |-> {1}, task |-> 1]

\* the running task's execve(path, argv, env)
Execve(argv, env, data, behind) ==
    /\ curtask <= MaxExecs
    /\ \E r \in {execve(sched, curtask, argv, env, data, curtask + 1, behind)} :
           /\ sched' = r.tasks
           /\ curtask' = IF r.ret = 0 THEN curtask + 1 ELSE curtask
           /\ exret' = [op |-> "execve", ret |-> r.ret, new_task |-> r.new_task,
                        argv |-> argv, env |-> env, data |-> data, tasks0 |-> sched,
                        task |-> curtask]

(***************************************************************************)
(* CPU fault handlers, src/src/hw/cpu_fault.c                              *)
(***************************************************************************)

\* cpu_fault.c:63, the last vector cpu_init_fault_handlers registers (0x1F)
LastFaultVector == 31

FaultVectors == 0 .. LastFaultVector

\* cpu_fault.c:28-48, indexed from 1 here and from 0 in the code
exception_names ==
    << "Division by zero", "Debug exception", "Non maskable interrupt",
       "Breakpoint", "Into detected", "Out of bounds", "Invalid opcode",
       "No coprocessor", "Double fault", "Bad TSS", "Segment not present",
       "Stack fault", "General protection fault",
       "Unknown interrupt exception", "Page fault", "Coprocessor fault",
       "Alignment check exception", "Machine check exception" >>

UnknownCpuError == "Unkown CPU error\n"

\* What a read of exception_names[] behind its last entry can give: the
\* word behind the table taken as a string pointer, or a fault on the read
\* of that string.
PastTheTable == {"word behind the table", "fault in panic"}

\* cpu_fault.c:50-57, the messages handler(regs) can panic with and whether
\* it has indexed the table behind its last entry
handler(interrupt) ==
    IF interrupt > 18
    THEN {[msg |-> UnknownCpuError, past |-> FALSE]}
    ELSE IF interrupt < Len(exception_names)
         THEN {[msg |-> exception_names[interrupt + 1], past |-> FALSE]}
         ELSE {[msg |-> m, past |-> TRUE] : m \in PastTheTable}

\* cpu_fault.c:62-63, the vector that the two interrupts_bulkRegisterHandler
\* calls register after vector n (0..13, then 15..0x1F)
next_fault_vector(n) == IF n = 13 THEN 15 ELSE n + 1

cpu_fault_init ==
    /\ fault_handlers = [n \in FaultVectors |-> "none"]
    /\ freg = 0
    /\ cf = [op |-> "init", interrupt |-> 0, msg |-> "none", past |-> FALSE]

\* cpu_fault.c:59-64, one interrupts_registerHandler(n, &handler) of the two
\* bulk registrations; a CPU exception can be raised between any two of them
CpuInitFaultHandlers ==
    /\ cf.op # "panic"
    /\ freg <= LastFaultVector
    /\ fault_handlers' = [fault_handlers EXCEPT ![freg] = "handler"]
    /\ freg' = next_fault_vector(freg)
    /\ UNCHANGED cf

\* The CPU raises exception `interrupt`; interrupts_callback calls the
\* handler registered for it, if any.
CpuFault(interrupt) ==
    /\ cf.op # "panic"
    /\ IF fault_handlers[interrupt] = "handler"
       THEN \E p \in handler(interrupt) :
                cf' = [op |-> "panic", interrupt |-> interrupt,
                       msg |-> p.msg, past |-> p.past]
       ELSE cf' = [op |-> "unhandled", interrupt |-> interrupt,
                   msg |-> "none", past |-> FALSE]
    /\ UNCHANGED <<fault_handlers, freg>>

(***************************************************************************)
(* kmalloc and kfree under kmalloc_lock (kmalloc.c:256-371)                *)
(*                                                                         *)
(* Tasks call kmalloc and kfree and are preempted before and after the     *)
(* statements that take and release kmalloc_lock; what a call does while   *)
(* it holds the lock is one step.  The lock is slock[kmalloc_lock].        *)
(***************************************************************************)

KlIdle == [pc |-> "idle", sz |-> 0, ptr |-> NULL, unlocked |-> FALSE]

NoKlCall == [op |-> "init", task |-> 0, ptr |-> NULL, got |-> FALSE,
             changed |-> FALSE, unlocked |-> FALSE, valid |-> FALSE]

kl_init ==
    /\ kl = [t \in Tasks |-> KlIdle]
    /\ klret = NoKlCall

\* the call of task t returns
KlReturn(t, op, ptr, got, changed, valid) ==
    /\ kl' = [kl EXCEPT ![t] = KlIdle]
    /\ klret' = [op |-> op, task |-> t, ptr |-> ptr, got |-> got,
                 changed |-> changed, unlocked |-> kl[t].unlocked, valid |-> valid]

\* kmalloc.c:256-279: the call up to spinlock_get; sz is raised to
\* sizeof(struct free_block) inside kmalloc().
KlKmallocCall(t, sz) ==
    /\ kstate = "run"
    /\ kl[t].pc = "idle"
    /\ ncalls < MaxCalls
    /\ Cardinality(live) < MaxLive
    /\ ncalls' = ncalls + 1
    /\ kl' = [kl EXCEPT ![t] = [KlIdle EXCEPT !.pc = "kmalloc_get", !.sz = sz]]
    /\ UNCHANGED <<mem, last_free, alloc_start, alloc_end, kstate, live, kret,
                   lvars, klret>>

\* kmalloc.c:281, kmalloc.c:364: spinlock_get finds the lock free
KlGet(t) ==
    /\ kstate = "run"
    /\ kl[t].pc \in {"kmalloc_get", "kfree_get"}
    /\ slock[kmalloc_lock] = 0
    /\ slock' = [slock EXCEPT ![kmalloc_lock] = 1]
    /\ kl' = [kl EXCEPT ![t].pc = IF @ = "kmalloc_get" THEN "kmalloc_body"
                                  ELSE "kfree_body"]
    /\ UNCHANGED <<kvars, ltask, lstate, klret>>

\* kmalloc.c:281-284: spinlock_get has found the lock taken 30 times
KlKmallocGiveUp(t) ==
    /\ kstate = "run"
    /\ kl[t].pc = "kmalloc_get"
    /\ slock[kmalloc_lock] # 0
    /\ KlReturn(t, "kmalloc", NULL, FALSE, FALSE, TRUE)
    /\ UNCHANGED <<kvars, lvars>>

\* kmalloc.c:286-320: the allocation, with the lock held
KlKmallocBody(t) ==
    /\ kstate = "run"
    /\ kl[t].pc = "kmalloc_body"
    /\ \E r \in {kmalloc(HeapNow, kl[t].sz, FALSE)} :
           /\ SetHeap(r.hs)
           /\ kstate' = r.end
           /\ kl' = [kl EXCEPT ![t].pc = "kmalloc_release", ![t].ptr = r.ptr]
    /\ UNCHANGED <<live, ncalls, kret, lvars, klret>>

\* kmalloc.c:321-336
KlKmallocRelease(t) ==
    /\ kstate = "run"
    /\ kl[t].pc = "kmalloc_release"
    /\ slock' = [slock EXCEPT ![kmalloc_lock] = 0]
    /\ live' = live \cup {kl[t].ptr}
    /\ KlReturn(t, "kmalloc", kl[t].ptr, TRUE, TRUE, TRUE)
    /\ UNCHANGED <<mem, last_free, alloc_start, alloc_end, kstate, ncalls, kret,
                   ltask, lstate>>

\* the pointers that a kfree call of some task has been given
KlFreeing == {kl[t].ptr : t \in {u \in Tasks : kl[u].pc \in {"kfree_get", "kfree_body", "kfree_release"}}}

\* kmalloc.c:339-362: kfree(p) of a pointer that the caller holds, up to
\* spinlock_get.  The test of line 355 reads alloc_start, alloc_end and
\* header->type; kmalloc_lock is not held by the caller there.
KlKfreeCall(t, p) ==
    /\ kstate = "run"
    /\ kl[t].pc = "idle"
    /\ p \in live \ KlFreeing
    /\ IF \/ p - SizeofMemBlock < alloc_start
          \/ p >= alloc_end
          \/ TypeOf(mem, p - SizeofMemBlock) = TYPE_FREE
       THEN KlReturn(t, "kfree", p, FALSE, FALSE, FALSE)
       ELSE /\ kl' = [kl EXCEPT ![t] = [pc |-> "kfree_get", sz |-> 0, ptr |-> p,
                                        unlocked |-> TRUE]]
            /\ UNCHANGED klret
    /\ UNCHANGED <<kvars, lvars>>

\* kmalloc.c:364-367: spinlock_get has found the lock taken 30 times; kfree
\* returns and the block stays as it is
KlKfreeGiveUp(t) ==
    /\ kstate = "run"
    /\ kl[t].pc = "kfree_get"
    /\ slock[kmalloc_lock] # 0
    /\ KlReturn(t, "kfree", kl[t].ptr, FALSE, FALSE, TRUE)
    /\ UNCHANGED <<kvars, lvars>>

\* kmalloc.c:369
KlKfreeBody(t) ==
    /\ kstate = "run"
    /\ kl[t].pc = "kfree_body"
    /\ SetHeap(free_block(HeapNow, kl[t].ptr - SizeofMemBlock, TRUE).hs)
    /\ live' = live \ {kl[t].ptr}
    /\ kl' = [kl EXCEPT ![t].pc = "kfree_release"]
    /\ UNCHANGED <<kstate, ncalls, kret, lvars, klret>>

\* kmalloc.c:370
KlKfreeRelease(t) ==
    /\ kstate = "run"
    /\ kl[t].pc = "kfree_release"
    /\ slock' = [slock EXCEPT ![kmalloc_lock] = 0]
    /\ KlReturn(t, "kfree", kl[t].ptr, TRUE, TRUE, TRUE)
    /\ UNCHANGED <<kvars, ltask, lstate>>

(***************************************************************************)
(* Specifications                                                          *)
(***************************************************************************)

FramesOnly == UNCHANGED <<kvars, vvars, pvars, ivars, lvars, evars, xvars, mvars, iovars, svars, exvars, cfvars, klvars, irqvars>>

HeapOnly == UNCHANGED <<fvars, vvars, pvars, ivars, lvars, evars, xvars, mvars, iovars, svars, exvars, cfvars, klvars, irqvars>>

VallocOnly == UNCHANGED <<fvars, kvars, pvars, ivars, lvars, evars, xvars, mvars, iovars, svars, exvars, cfvars, klvars, irqvars>>

PipeOnly == UNCHANGED <<fvars, kvars, vvars, ivars, lvars, evars, xvars, mvars, iovars, svars, exvars, cfvars, klvars, irqvars>>

InterruptsOnly == UNCHANGED <<fvars, kvars, vvars, pvars, lvars, evars, xvars, mvars, iovars, svars, exvars, cfvars, klvars, irqvars>>

LocksOnly == UNCHANGED <<fvars, kvars, vvars, pvars, ivars, evars, xvars, mvars, iovars, svars, exvars, cfvars, klvars, irqvars>>

ElfOnly == UNCHANGED <<fvars, kvars, vvars, pvars, ivars, lvars, xvars, mvars, iovars, svars, exvars, cfvars, klvars, irqvars>>

Ext2Only == UNCHANGED <<fvars, kvars, vvars, pvars, ivars, lvars, evars, mvars, iovars, svars, exvars, cfvars, klvars, irqvars>>

MountOnly == UNCHANGED <<fvars, kvars, vvars, pvars, ivars, lvars, evars, xvars, iovars, svars, exvars, cfvars, klvars, irqvars>>

IoOnly == UNCHANGED <<fvars, kvars, vvars, pvars, ivars, lvars, evars, xvars, mvars, svars, exvars, cfvars, klvars, irqvars>>

SleepOnly == UNCHANGED <<fvars, kvars, vvars, pvars, ivars, lvars, evars, xvars, mvars, iovars, exvars, cfvars, klvars, irqvars>>

ExecOnly == UNCHANGED <<fvars, kvars, vvars, pvars, ivars, lvars, evars, xvars, mvars, iovars, svars, cfvars, klvars, irqvars>>

FaultOnly == UNCHANGED <<fvars, kvars, vvars, pvars, ivars, lvars, evars, xvars, mvars, iovars, svars, exvars, klvars, irqvars>>

HeapLockOnly == UNCHANGED <<fvars, vvars, pvars, ivars, evars, xvars, mvars, iovars, svars, exvars, cfvars, irqvars>>

IrqOnly == UNCHANGED <<fvars, kvars, vvars, pvars, lvars, evars, xvars, mvars, iovars, svars, exvars, cfvars, klvars>>

\* the subsystems a specification leaves alone, as construction leaves them
Ext2Idle == ext2_mount([block_size |-> 0, block_count |-> 8192])

FramesIdle == frames_init

HeapIdle == kmalloc_init(1048576)

InitFrames == frames_init /\ HeapIdle /\ valloc_init /\ pipe_init /\ interrupts_init /\ locks_init /\ elf_init /\ Ext2Idle /\ MountIdle /\ io_init /\ SleepOff /\ exec_init /\ cpu_fault_init /\ kl_init /\ IrqIdle

NextFrames ==
    \/ frames_allocateFrame /\ FramesOnly
    \/ \E f \in Frames : frames_freeFrame(f) /\ FramesOnly

SpecFrames == InitFrames /\ [][NextFrames]_vars

InitHeap == FramesIdle /\ KmallocInit /\ valloc_init /\ pipe_init /\ interrupts_init /\ locks_init /\ elf_init /\ Ext2Idle /\ MountIdle /\ io_init /\ SleepOff /\ exec_init /\ cpu_fault_init /\ kl_init /\ IrqIdle

\* callers that free only what they hold
NextKmalloc ==
    \/ \E sz \in Sizes, align \in BOOLEAN : Kmalloc(sz, align) /\ HeapOnly
    \/ \E p \in live : Kfree(p) /\ HeapOnly
    \/ KmallocKfreePair /\ HeapOnly

SpecKmalloc == InitHeap /\ [][NextKmalloc]_vars

\* callers that also free invalid pointers
NextKfree ==
    \/ \E sz \in Sizes, align \in BOOLEAN : Kmalloc(sz, align) /\ HeapOnly
    \/ \E p \in live : Kfree(p) /\ HeapOnly
    \/ \E p \in OutsidePtrs : KfreeOutside(p) /\ HeapOnly
    \/ KfreeAgain /\ HeapOnly

SpecKfree == InitHeap /\ [][NextKfree]_vars

\* callers of valloc_at, vmap and vfree; vfree is called with a copy that
\* valloc_at or vmap handed out, once
InitValloc == FramesIdle /\ HeapIdle /\ valloc_init /\ pipe_init /\ interrupts_init /\ locks_init /\ elf_init /\ Ext2Idle /\ MountIdle /\ io_init /\ SleepOff /\ exec_init /\ cpu_fault_init /\ kl_init /\ IrqIdle

NextValloc ==
    \/ \E ctx \in Ctxs, c \in VallocCalls :
           VallocAt(ctx, c.size, c.virt_request, c.phys, c.flags) /\ VallocOnly
    \/ \E ctx \in Ctxs, c \in MapCalls : \E src_ctx \in Ctxs \ {ctx} :
           Vmap(ctx, src_ctx, c.src_addr, c.size, c.flags) /\ VallocOnly
    \/ \E range \in outs : Vfree(range) /\ VallocOnly

SpecValloc == InitValloc /\ [][NextValloc]_vars

\* the same callers, and tasks that exit: valloc_cleanup of their context
InitCleanup == FramesIdle /\ HeapIdle /\ valloc_init /\ pipe_init /\ interrupts_init /\ locks_init /\ elf_init /\ Ext2Idle /\ MountIdle /\ io_init /\ SleepOff /\ exec_init /\ cpu_fault_init /\ kl_init /\ IrqIdle

NextCleanup ==
    \/ \E ctx \in Ctxs, c \in VallocCalls :
           VallocAt(ctx, c.size, c.virt_request, c.phys, c.flags) /\ VallocOnly
    \/ \E ctx \in Ctxs, c \in MapCalls : \E src_ctx \in Ctxs \ {ctx} :
           Vmap(ctx, src_ctx, c.src_addr, c.size, c.flags) /\ VallocOnly
    \/ \E range \in outs : Vfree(range) /\ VallocOnly
    \/ \E ctx \in Ctxs : VallocCleanup(ctx) /\ VallocOnly

SpecCleanup == InitCleanup /\ [][NextCleanup]_vars

\* One reader and one writer whose calls do not overlap: a call starts when
\* the other task is in no call, or is the writer's while the reader waits
\* in the halt() loop for data.
InitPipe == FramesIdle /\ HeapIdle /\ valloc_init /\ pipe_init /\ interrupts_init /\ locks_init /\ elf_init /\ Ext2Idle /\ MountIdle /\ io_init /\ SleepOff /\ exec_init /\ cpu_fault_init /\ kl_init /\ IrqIdle

WriterIdle == wr.pc = "idle"

ReaderQuiet == rd.pc \in {"idle", "wait"}

NextPipe ==
    \/ \E size \in PipeSizes, flags \in {{}, {O_NONBLOCK}}, write_fp \in BOOLEAN :
           PipeReadCall(size, flags, write_fp) /\ WriterIdle /\ PipeOnly
    \/ PipeReadWait /\ WriterIdle /\ PipeOnly
    \/ PipeReadCopy /\ PipeOnly
    \/ PipeReadDec /\ PipeOnly
    \/ PipeReadMove /\ PipeOnly
    \/ \E size \in PipeSizes : PipeWriteCall(size) /\ ReaderQuiet /\ PipeOnly
    \/ PipeWriteCopy /\ PipeOnly
    \/ PipeWriteAdd /\ PipeOnly

SpecPipe == InitPipe /\ [][NextPipe]_vars

\* Interrupts that arrive at any time, also while interrupt_callback or a
\* handler runs, and handlers registered at any time.
InitInterrupts == FramesIdle /\ HeapIdle /\ valloc_init /\ pipe_init /\ interrupts_init /\ locks_init /\ elf_init /\ Ext2Idle /\ MountIdle /\ io_init /\ SleepOff /\ exec_init /\ cpu_fault_init /\ kl_init /\ IrqIdle

NextInterrupts ==
    \/ \E n \in Vectors : interrupt_registerHandler(n) /\ InterruptsOnly
    \/ \E int_no \in Vectors : InterruptArrives(int_no) /\ InterruptsOnly
    \/ InterruptTest /\ InterruptsOnly
    \/ InterruptSet /\ InterruptsOnly
    \/ InterruptLookup /\ InterruptsOnly
    \/ InterruptHandlerReturns /\ InterruptsOnly
    \/ InterruptClear /\ InterruptsOnly

SpecInterrupts == InitInterrupts /\ [][NextInterrupts]_vars

\* Tasks that call valloc_at, vmap, vfree, kmalloc and kfree and are
\* preempted at any statement.
InitLocks == FramesIdle /\ HeapIdle /\ valloc_init /\ pipe_init /\ interrupts_init /\ locks_init /\ elf_init /\ Ext2Idle /\ MountIdle /\ io_init /\ SleepOff /\ exec_init /\ cpu_fault_init /\ kl_init /\ IrqIdle

NextLocks ==
    \/ \E t \in Tasks, call \in LockCalls : LockCall(t, call) /\ LocksOnly
    \/ \E t \in Tasks : LockGet(t) /\ LocksOnly
    \/ \E t \in Tasks : LockGiveUp(t) /\ LocksOnly
    \/ \E t \in Tasks : LockRelease(t) /\ LocksOnly
    \/ \E t \in Tasks : LockPanic(t) /\ LocksOnly

SpecLocks == InitLocks /\ [][NextLocks]_vars

\* Callers of elf_load_file on one task, with the files they find.
InitElf == FramesIdle /\ HeapIdle /\ valloc_init /\ pipe_init /\ interrupts_init /\ locks_init /\ elf_init /\ Ext2Idle /\ MountIdle /\ io_init /\ SleepOff /\ exec_init /\ cpu_fault_init /\ kl_init /\ IrqIdle

NextElf ==
    \/ \E path \in ElfPaths, fs \in ElfFs : ElfLoadFile(path, fs) /\ ElfOnly

SpecElf == InitElf /\ [][NextElf]_vars

\* Callers that open paths of the ext2 mount, seek and read, and
\* read_inode_block on a file with indirect blocks.
InitExt2 == FramesIdle /\ HeapIdle /\ valloc_init /\ pipe_init /\ interrupts_init /\ locks_init /\ elf_init /\ ext2_init /\ MountIdle /\ io_init /\ SleepOff /\ exec_init /\ cpu_fault_init /\ kl_init /\ IrqIdle

NextExt2 ==
    \/ \E path \in ExtPaths, after \in ExtAfter, above \in BOOLEAN :
           Ext2Open(path, after, above) /\ Ext2Only
    \/ \E offset \in ExtOffsets : VfsSeek(offset) /\ Ext2Only
    \/ \E size \in ExtSizes : VfsRead(size) /\ Ext2Only
    \/ \E block_num \in ExtBlockNums, garbage \in {0, 7} :
           ReadInodeBlock(block_num, garbage) /\ Ext2Only

SpecExt2 == InitExt2 /\ [][NextExt2]_vars

\* The start of the kernel with either ext2.c built, on any superblock,
\* and calls through the mount.
InitMount == FramesIdle /\ HeapIdle /\ valloc_init /\ pipe_init /\ interrupts_init /\ locks_init /\ elf_init /\ Ext2Idle /\ mount_init /\ io_init /\ SleepOff /\ exec_init /\ cpu_fault_init /\ kl_init /\ IrqIdle

NextMount ==
    \/ \E fails \in SuperReads, garbage \in DiskSuperblocks, now \in {100} :
           Ext2Init(fails, garbage, now) /\ MountOnly
    \/ \E mode \in 0 .. MaxMode : VfsChmod(mode) /\ MountOnly
    \/ VfsStat /\ MountOnly

SpecMount == InitMount /\ [][NextMount]_vars

\* Calls into ext2 on a disk whose reads can fail.
InitIo == FramesIdle /\ HeapIdle /\ valloc_init /\ pipe_init /\ interrupts_init /\ locks_init /\ elf_init /\ Ext2Idle /\ MountIdle /\ io_init /\ SleepOff /\ exec_init /\ cpu_fault_init /\ kl_init /\ IrqIdle

NextIo ==
    \/ \E path \in ExtPaths : IoOpenCall(path) /\ IoOnly
    \/ \E ok \in BOOLEAN : IoOpenReadInode(ok) /\ IoOnly
    \/ \E ok \in BOOLEAN, after \in ExtAfter : IoOpenReadBlocks(ok, after) /\ IoOnly
    \/ \E ok \in BOOLEAN, above \in BOOLEAN : IoOpenSymlink(ok, above) /\ IoOnly
    \/ IoReturns /\ IoOnly
    \/ \E inode_num \in {2, 6}, ok \in BOOLEAN : IoStat(inode_num, ok) /\ IoOnly
    \/ \E inode_num \in {3, 6}, size \in {0, 100, 1024}, fails \in IoFails :
           IoGetdents(inode_num, size, fails) /\ IoOnly
    \/ \E inode_num \in {5, 6, 12}, size \in {0, 100, 13 * 1024}, fails \in IoFails :
           IoRead(inode_num, size, fails) /\ IoOnly

SpecIo == InitIo /\ [][NextIo]_vars

\* A task that sleeps, and the timer.
InitSleep == FramesIdle /\ HeapIdle /\ valloc_init /\ pipe_init /\ interrupts_init /\ locks_init /\ elf_init /\ Ext2Idle /\ MountIdle /\ io_init /\ sleep_init /\ exec_init /\ cpu_fault_init /\ kl_init /\ IrqIdle

NextSleep ==
    \/ PitTick /\ SleepOnly
    \/ \E timeout \in 0 .. (TickMod - 1) : SleepTicks(timeout) /\ SleepOnly
    \/ SleepTest /\ SleepOnly

SpecSleep == InitSleep /\ [][NextSleep]_vars

\* A task that calls execve, and the task made by it.
InitExec == FramesIdle /\ HeapIdle /\ valloc_init /\ pipe_init /\ interrupts_init /\ locks_init /\ elf_init /\ Ext2Idle /\ MountIdle /\ io_init /\ SleepOff /\ exec_init /\ cpu_fault_init /\ kl_init /\ IrqIdle

NextExec ==
    \/ \E argv \in ExecArgvs, env \in ExecEnvs, data \in ExecData, behind \in {NULL, 9} :
           Execve(argv, env, data, behind) /\ ExecOnly

SpecExec == InitExec /\ [][NextExec]_vars

\* CPU exceptions raised while and after cpu_init_fault_handlers runs.
InitFault == FramesIdle /\ HeapIdle /\ valloc_init /\ pipe_init /\ interrupts_init /\ locks_init /\ elf_init /\ Ext2Idle /\ MountIdle /\ io_init /\ SleepOff /\ exec_init /\ cpu_fault_init /\ kl_init /\ IrqIdle

NextFault ==
    \/ CpuInitFaultHandlers /\ FaultOnly
    \/ \E interrupt \in FaultVectors : CpuFault(interrupt) /\ FaultOnly

SpecFault == InitFault /\ [][NextFault]_vars

\* One reader task and one writer task that are preempted at any statement
\* of pipe_read and pipe_write: pipe.c takes no lock, and pipe_read waits in
\* halt() for a write made by another task while it is inside the call.
InitPipeRace == FramesIdle /\ HeapIdle /\ valloc_init /\ pipe_init /\ interrupts_init /\ locks_init /\ elf_init /\ Ext2Idle /\ MountIdle /\ io_init /\ SleepOff /\ exec_init /\ cpu_fault_init /\ kl_init /\ IrqIdle

\* sizes whose sum with data_size fits a word
RaceSizes == {1, 2}

NextPipeRace ==
    \/ \E size \in RaceSizes : PipeReadCall(size, {}, TRUE) /\ PipeOnly
    \/ PipeReadWait /\ PipeOnly
    \/ PipeReadCopy /\ PipeOnly
    \/ PipeReadDec /\ PipeOnly
    \/ PipeReadMove /\ PipeOnly
    \/ \E size \in RaceSizes : PipeWriteCall(size) /\ PipeOnly
    \/ PipeWriteCopy /\ PipeOnly
    \/ PipeWriteAdd /\ PipeOnly

SpecPipeRace == InitPipeRace /\ [][NextPipeRace]_vars

\* Callers of one context's valloc_at and vfree only, in any order.
InitVfree == FramesIdle /\ HeapIdle /\ valloc_init /\ pipe_init /\ interrupts_init /\ locks_init /\ elf_init /\ Ext2Idle /\ MountIdle /\ io_init /\ SleepOff /\ exec_init /\ cpu_fault_init /\ kl_init /\ IrqIdle

NextVfree ==
    \/ \E ctx \in Ctxs, c \in VallocCalls :
           VallocAt(ctx, c.size, c.virt_request, c.phys, c.flags) /\ VallocOnly
    \/ \E range \in outs : Vfree(range) /\ VallocOnly

SpecVfree == InitVfree /\ [][NextVfree]_vars

\* Tasks that call kmalloc and kfree of what they hold and are preempted
\* around the statements that take and release kmalloc_lock.
InitHeapLock == FramesIdle /\ HeapIdle /\ valloc_init /\ pipe_init /\ interrupts_init /\ locks_init /\ elf_init /\ Ext2Idle /\ MountIdle /\ io_init /\ SleepOff /\ exec_init /\ cpu_fault_init /\ kl_init /\ IrqIdle

NextHeapLock ==
    \/ \E t \in Tasks, sz \in {4, 64} : KlKmallocCall(t, sz) /\ HeapLockOnly
    \/ \E t \in Tasks : KlGet(t) /\ HeapLockOnly
    \/ \E t \in Tasks : KlKmallocGiveUp(t) /\ HeapLockOnly
    \/ \E t \in Tasks : KlKmallocBody(t) /\ HeapLockOnly
    \/ \E t \in Tasks : KlKmallocRelease(t) /\ HeapLockOnly
    \/ \E t \in Tasks, p \in live : KlKfreeCall(t, p) /\ HeapLockOnly
    \/ \E t \in Tasks : KlKfreeGiveUp(t) /\ HeapLockOnly
    \/ \E t \in Tasks : KlKfreeBody(t) /\ HeapLockOnly
    \/ \E t \in Tasks : KlKfreeRelease(t) /\ HeapLockOnly

SpecHeapLock == InitHeapLock /\ [][NextHeapLock]_vars

\* Exceptions and IRQs that arrive at any time, also while an entry runs.
InitIrq == FramesIdle /\ HeapIdle /\ valloc_init /\ pipe_init /\ irq_init /\ locks_init /\ elf_init /\ Ext2Idle /\ MountIdle /\ io_init /\ SleepOff /\ exec_init /\ cpu_fault_init /\ kl_init

NextIrq ==
    \/ \E n \in IrqVectors : interrupt_registerHandler(n) /\ UNCHANGED eoi /\ IrqOnly
    \/ \E int_no \in IrqVectors : IrqArrives(int_no) /\ IrqOnly
    \/ IrqEoiSlave /\ IrqOnly
    \/ IrqEoiMaster /\ IrqOnly
    \/ InterruptTest /\ IrqReturns /\ IrqOnly
    \/ InterruptSet /\ UNCHANGED eoi /\ IrqOnly
    \/ InterruptLookup /\ UNCHANGED eoi /\ IrqOnly
    \/ InterruptHandlerReturns /\ UNCHANGED eoi /\ IrqOnly
    \/ InterruptClear /\ IrqReturns /\ IrqOnly

SpecIrq == InitIrq /\ [][NextIrq]_vars

\* One reader and one writer preempted at any statement, with timer ticks
\* that keep occurring and a scheduler that is fair to the reader: halt()
\* returns at the next tick and the reader then tests data_size again, so a
\* statement of pipe_read that stays possible is executed.
InitPipeWait == FramesIdle /\ HeapIdle /\ valloc_init /\ pipe_init /\ interrupts_init /\ locks_init /\ elf_init /\ Ext2Idle /\ MountIdle /\ io_init /\ SleepOff /\ exec_init /\ cpu_fault_init /\ kl_init /\ IrqIdle

\* the sizes that the reader and the writer of this specification pass
WaitSizes == {0, 1, 2}
\* the number of bytes of the accepted writes of one behaviour of it
WaitBytes == 3

NextPipeWait ==
    \/ \E size \in WaitSizes : PipeReadCall(size, {}, TRUE) /\ PipeOnly
    \/ PipeReadWait /\ PipeOnly
    \/ PipeReadCopy /\ PipeOnly
    \/ PipeReadDec /\ PipeOnly
    \/ PipeReadMove /\ PipeOnly
    \/ \E size \in WaitSizes :
           PipeWriteCall(size) /\ Len(accepted) + size <= WaitBytes /\ PipeOnly
    \/ PipeWriteCopy /\ PipeOnly
    \/ PipeWriteAdd /\ PipeOnly

ReaderIsScheduled ==
    /\ WF_vars(PipeReadWait /\ PipeOnly)
    /\ WF_vars(PipeReadCopy /\ PipeOnly)
    /\ WF_vars(PipeReadDec /\ PipeOnly)
    /\ WF_vars(PipeReadMove /\ PipeOnly)

SpecPipeWait == InitPipeWait /\ [][NextPipeWait]_vars /\ ReaderIsScheduled

(***************************************************************************)
(* Claims                                                                  *)
(***************************************************************************)

\* The blocks of the arena, walked header by header from h up to end.
RECURSIVE Blocks(_, _, _)
Blocks(m, h, end) ==
    IF h >= end \/ SizeOf(m, h) < 0 THEN <<>>
    ELSE <<h>> \o Blocks(m, NEXT_BLOCK(m, h), end)

\* The free list walked from fb via prev links, at most n entries of it.
RECURSIVE FreeListFrom(_, _, _)
FreeListFrom(m, fb, n) ==
    IF fb = NULL \/ n = 0 THEN <<>>
    ELSE <<fb>> \o FreeListFrom(m, FbPrev(m, fb), n - 1)

ArenaBlocks == Blocks(mem, alloc_start, alloc_end)

FreeList == FreeListFrom(mem, last_free, Cardinality(DOMAIN mem) + 1)

Range(f) == {f[i] : i \in DOMAIN f}

FreeHeaders == {h \in Range(ArenaBlocks) : TypeOf(mem, h) = TYPE_FREE}

\* C1: frames_allocateFrame never returns a frame number that was returned
\* earlier and has not been freed since, for call sequences of any length
\* relative to the pool size.
C1_NoFrameReturnedTwice == fret.op = "alloc" => ~fret.dup

\* C2: kfree(ptr) changes no allocator state when ptr lies outside
\* [alloc_start, alloc_end) or when the block at ptr has already been freed
\* and not been handed out since; a second kfree of the same pointer is a
\* no-op whatever the neighbouring blocks were at the first kfree.
C2_InvalidFreeIsNoOp ==
    kret.op \in {"kfree_outside", "kfree_again"} => ~kret.changed

\* C3: the free list reachable from last_free via prev links holds exactly
\* the blocks of the arena whose header type is FREE, each exactly once.
C3_FreeListExact ==
    /\ {GET_HEADER_FROM_FB(fb) : fb \in Range(FreeList)} = FreeHeaders
    /\ Len(FreeList) = Cardinality(FreeHeaders)

W3_FreeListExact ==
    /\ kret.op = "kfree"
    /\ Len(FreeList) >= 2
    /\ live # {}

\* C4: no two blocks adjacent in the arena both have type FREE.
C4_NoAdjacentFree ==
    \A i \in 1 .. (Len(ArenaBlocks) - 1) :
        ~(/\ TypeOf(mem, ArenaBlocks[i]) = TYPE_FREE
          /\ TypeOf(mem, ArenaBlocks[i + 1]) = TYPE_FREE)

\* a kfree whose block was absorbed by its FREE predecessor, next to a USED block
W4_NoAdjacentFree ==
    /\ kret.op = "kfree"
    /\ live # {}
    /\ \E b \in FreeHeaders :
          b < kret.ptr - SizeofMemBlock /\ kret.ptr < NEXT_BLOCK(mem, b)

\* C5: a non-null pointer returned by kmalloc with align = true is a
\* multiple of 4096 and heads a USED block of the arena whose content size
\* is at least the size asked for.
C5_AlignedPointer ==
    (kret.op = "kmalloc" /\ kret.align /\ kret.ptr # NULL) =>
        /\ kret.ptr % PAGE_SIZE = 0
        /\ (kret.ptr - SizeofMemBlock) \in Range(ArenaBlocks)
        /\ TypeOf(mem, kret.ptr - SizeofMemBlock) = TYPE_USED
        /\ SizeOf(mem, kret.ptr - SizeofMemBlock) >= kret.sz

\* an aligned block taken from the free list, behind an alignment gap block
W5_AlignedPointer ==
    /\ kret.op = "kmalloc" /\ kret.align /\ kret.ptr # NULL
    /\ kret.end0 = alloc_end
    /\ \E b \in FreeHeaders : NEXT_BLOCK(mem, b) = kret.ptr - SizeofMemBlock

\* C6: once every pointer returned by kmalloc has been freed, the arena is
\* a single FREE block that is the only free list entry, and a kmalloc of
\* that block's content size returns it without advancing alloc_end.
C6_AllFreedIsOneBlock ==
    (live = {} /\ alloc_end > alloc_start) =>
        /\ ArenaBlocks = <<alloc_start>>
        /\ TypeOf(mem, alloc_start) = TYPE_FREE
        /\ NEXT_BLOCK(mem, alloc_start) = alloc_end
        /\ FreeList = <<GET_FB(alloc_start)>>
        /\ \E r \in {kmalloc(HeapNow, SizeOf(mem, alloc_start), FALSE)} :
              /\ r.end = "run"
              /\ r.ptr = GET_CONTENT(alloc_start)
              /\ r.hs.alloc_end = alloc_end

W6_AllFreedIsOneBlock ==
    /\ live = {}
    /\ kret.op = "kfree"
    /\ ncalls >= 3
    /\ alloc_end - alloc_start > PAGE_SIZE

\* C7: repeating p = kmalloc(64); kfree(p) leaves alloc_end at its value
\* after the first pair.
C7_PairsKeepAllocEnd == kret.op = "pair" => alloc_end = kret.first

\* a second pair in a fragmented arena whose first pair had to grow it
W7_PairsKeepAllocEnd ==
    /\ kret.op = "pair" /\ kret.n >= 2 /\ kstate = "pairs"
    /\ live # {}
    /\ FreeHeaders # {}
    /\ NEXT_BLOCK(mem, kret.ptr - SizeofMemBlock) = alloc_end

\* The bits of a context's bitmap that belong to a range.
RangeBits(range) ==
    (range.addr \div PAGE_SIZE) ..
        (range.addr \div PAGE_SIZE + range.size \div PAGE_SIZE - 1)

\* C8: when valloc_at(ctx, out, k, ...) returns 0, out has size k * 4096 and
\* the k bits from out.addr / 4096 on are set in ctx's bitmap; after vfree of
\* such a range (phys is not NULL, which tells it from a vmap range) its
\* bits are clear and every other bit of every bitmap is as it was before.
C8_VallocBitsSetThenCleared ==
    /\ (vret.op = "valloc_at" /\ vret.ret = 0) =>
           /\ vret.out.size = vret.size * PAGE_SIZE
           /\ \A i \in 0 .. (vret.size - 1) :
                  vret.out.addr \div PAGE_SIZE + i \in bitmap[vret.ctx]
    /\ (vret.op = "vfree" /\ vret.ret = 0 /\ vret.out.phys # NULL) =>
           /\ RangeBits(vret.out) \cap bitmap[vret.ctx] = {}
           /\ bitmap[vret.ctx] \ RangeBits(vret.out)
                  = vret.bitmap0[vret.ctx] \ RangeBits(vret.out)
           /\ \A ctx \in Ctxs \ {vret.ctx} : bitmap[ctx] = vret.bitmap0[ctx]

\* a two page range that valloc_at placed at the requested page 2 has been
\* freed while another range of the context is live
W8_VallocBitsSetThenCleared ==
    /\ vret.op = "vfree" /\ vret.ret = 0 /\ vret.out.phys # NULL
    /\ vret.out.size = 2 * PAGE_SIZE
    /\ vret.out.addr = 2 * PAGE_SIZE
    /\ vret.bitmap0[vret.ctx] # bitmap[vret.ctx]
    /\ bitmap[vret.ctx] # valloc_new.bitmap

\* The physical address a virtual address has in a context's page tables.
PhysOf(ctx, addr) ==
    IF ptab[ctx][(addr \div PAGE_SIZE) % NPages] = NotFound THEN NotFound
    ELSE ptab[ctx][(addr \div PAGE_SIZE) % NPages] + (addr % PAGE_SIZE)

\* The physical bytes that back an address of a source context: the one its
\* page tables give, and the one that a record of the context gives (a range
\* made with VM_NO_MAP has no page table entry).
SourceBytes(ctx, addr) ==
    ({PhysOf(ctx, addr)} \ {NotFound})
    \cup {recs[s].phys + (addr - recs[s].addr) :
             s \in {t \in inuse : /\ recs[t].ctx = ctx
                                  /\ recs[t].phys # NULL
                                  /\ addr >= recs[t].addr
                                  /\ addr < recs[t].addr + recs[t].size}}

\* The offsets at which a page of [addr, addr + size) starts or ends: the
\* mapping is by pages, so what holds at these offsets holds at all.
PageEnds(addr, size) ==
    {i \in 0 .. (size - 1) :
        \/ i = 0 \/ i = size - 1
        \/ (addr + i) % PAGE_SIZE = 0
        \/ (addr + i) % PAGE_SIZE = PAGE_SIZE - 1}

\* C9: when p = vmap(dst, out, src, src_addr, n, flags) is not NULL, it has
\* allocated ceil((src_addr mod 4096 + n) / 4096) pages of dst,
\* p = out.addr + src_addr mod 4096, and for every i in [0, n) the address
\* p + i is mapped in dst to the physical byte that src_addr + i has in src.
C9_VmapMapsSource ==
    (vret.op = "vmap" /\ vret.ret # NULL) =>
        /\ Cardinality(bitmap[vret.ctx] \ vret.bitmap0[vret.ctx])
               = ((vret.addr % PAGE_SIZE) + vret.size + PAGE_SIZE - 1) \div PAGE_SIZE
        /\ vret.ret = vret.out.addr + (vret.addr % PAGE_SIZE)
        /\ \A i \in PageEnds(vret.addr, vret.size) :
               PhysOf(vret.ctx, vret.ret + i) \in SourceBytes(vret.src_ctx, vret.addr + i)

\* What does hold of vmap: the same statement for the calls that do not pass
\* VM_MAP_UNDERALLOC_WORKAROUND.
VmapMapsSourceUnlessUnderalloc ==
    "VM_MAP_UNDERALLOC_WORKAROUND" \notin vret.flags => C9_VmapMapsSource

IsPrefix(s, t) == Len(s) <= Len(t) /\ SubSeq(t, 1, Len(s)) = s

\* C10: with calls of one reader and one writer that do not overlap, what
\* the reads have returned is, in order, a prefix of what the accepted
\* writes have passed; a read returns min(size, data_size) bytes and leaves
\* data_size smaller by that number.
C10_PipeIsFifo ==
    /\ IsPrefix(delivered, accepted)
    /\ pret.op = "read" =>
           /\ Len(pret.bytes) = MIN(pret.size, pret.before)
           /\ pret.after = pret.before - Len(pret.bytes)

\* a read has returned bytes that an earlier read left in the buffer and
\* has itself left some
W10_PipeIsFifo ==
    /\ pret.op = "read" /\ pret.ret > 0
    /\ Len(delivered) > Len(pret.bytes)
    /\ pret.after > 0
    /\ Len(accepted) > PIPE_BUFFER_SIZE

\* C11: pipe_write refuses with EFBIG, changing nothing, exactly when
\* data_size + size as unbounded integers exceeds PIPE_BUFFER_SIZE; a write
\* it accepts returns size and adds size to data_size, and no write stores
\* bytes past the end of the buffer.
C11_PipeWriteChecksRoom ==
    /\ pstate # "fault"
    /\ wr.pc # "idle" => data_size + wr.size <= PIPE_BUFFER_SIZE
    /\ pret.op = "write" =>
           /\ pret.errno = "EFBIG" <=> pret.before + pret.size > PIPE_BUFFER_SIZE
           /\ pret.errno = "EFBIG" => pret.ret = 0 - 1 /\ pret.after = pret.before
           /\ pret.errno # "EFBIG" =>
                  /\ pret.ret = pret.size
                  /\ pret.after = pret.before + pret.size
    /\ data_size \in 0 .. PIPE_BUFFER_SIZE

\* What does hold of pipe_write: it refuses exactly when the sum, taken in
\* 32 bits, exceeds PIPE_BUFFER_SIZE, and a refused write changes nothing.
PipeWriteChecksWrappedSum ==
    /\ wr.pc # "idle" => (data_size + wr.size) % WordMod <= PIPE_BUFFER_SIZE
    /\ pret.op = "write" =>
           /\ pret.errno = "EFBIG" <=>
                  (pret.before + pret.size) % WordMod > PIPE_BUFFER_SIZE
           /\ pret.errno = "EFBIG" => pret.ret = 0 - 1 /\ pret.after = pret.before

\* the reads that found the pipe empty when they were called
ReadFoundEmpty(call) == call.data_size = 0

\* a step in which pipe_read returns -1
ReadFails == pret' # pret /\ pret'.op = "read" /\ pret'.errno # ""

\* what holds of the pipe_read calls in every state
PipeReadEmptyState ==
    /\ pret.op = "read" =>
           /\ pret.errno = "EAGAIN" <=>
                  ReadFoundEmpty(pret.call) /\ O_NONBLOCK \in pret.call.flags
           /\ pret.errno = "EBADF" <=>
                  /\ ReadFoundEmpty(pret.call)
                  /\ O_NONBLOCK \notin pret.call.flags
                  /\ ~pret.call.write_fp
           /\ pret.errno # "" => pret.ret = 0 - 1 /\ pret.after = pret.before
           /\ pret.errno = "" => pret.before > 0
    /\ rd.pc # "idle" /\ ReadFoundEmpty(rd.call) =>
           O_NONBLOCK \notin rd.call.flags /\ rd.call.write_fp
    /\ rd.pc \in {"copy", "dec", "move"} => rd.before > 0

\* C12: pipe_read on an empty pipe returns -1 with EAGAIN at once when
\* O_NONBLOCK is set, returns -1 with EBADF when it is not set and the
\* writing end is not open in the calling task, changes neither the buffer
\* nor data_size in these two cases, and in every other case waits until
\* data_size > 0.
C12_PipeReadEmpty ==
    /\ []PipeReadEmptyState
    /\ [][/\ ReadFails => buffer' = buffer /\ data_size' = data_size /\ rd.pc = "idle"
          /\ rd.pc = "wait" /\ rd'.pc # "wait" => data_size > 0]_vars

\* a call with O_NONBLOCK has returned EAGAIN from the pipe that earlier
\* writes and reads have left empty, and the call after it, without
\* O_NONBLOCK and with the writing end open, waits for data
W12_PipeReadEmpty ==
    /\ pret.op = "read" /\ pret.errno = "EAGAIN"
    /\ rd.pc = "wait" /\ ReadFoundEmpty(rd.call) /\ data_size = 0
    /\ Len(delivered) > 0

\* the calls of interrupt_callback that are inside a handler
InHandler == {i \in DOMAIN istack : istack[i].pc = "handler"}

\* the calls that have passed the test of the flag and set it
Dispatching == {i \in DOMAIN istack : istack[i].pc \in {"lookup", "handler", "clear"}}

\* what holds of interrupt_callback in every state
OneDispatchState ==
    /\ Cardinality(InHandler) <= 1
    /\ Cardinality(Dispatching) <= 1
    /\ inInterrupt <=> Dispatching # {}
    /\ iret.op = "interrupt_callback" =>
           /\ iret.dropped <=> iret.flag0
           /\ iret.dropped => ~iret.handled /\ iret.flag1 = iret.flag0
           /\ ~iret.dropped => ~iret.flag1

\* a step in which a call of interrupt_callback returns
CallbackReturns == Len(istack') < Len(istack)

\* C13: at most one registered handler executes at any time; an interrupt
\* delivered while the flag is set returns without calling a handler and
\* without changing the flag; the flag is set for the duration of a
\* dispatch that is not dropped and is cleared when that dispatch returns,
\* with or without a registered handler.
C13_OneHandlerAtATime ==
    /\ []OneDispatchState
    /\ [][/\ CallbackReturns /\ ITop.pc = "test" =>
                 inInterrupt /\ inInterrupt' /\ ~ITop.handled
          /\ CallbackReturns /\ ITop.pc # "test" => ~inInterrupt'
          /\ istack # <<>> /\ ITop.pc = "test" /\ istack' = ISetPc("set") =>
                 ~inInterrupt]_vars

\* an interrupt that arrived while a handler ran has been dropped, the
\* handler still runs, and a dispatch for a vector without handler has
\* returned before
W13_OneHandlerAtATime ==
    /\ iret.op = "interrupt_callback" /\ iret.dropped
    /\ InHandler # {}
    /\ inInterrupt
    /\ \E n \in Vectors : interruptHandlers[n] = 0

\* the tasks whose next statement is a spinlock_get
Getting == {t \in Tasks : ltask[t].prog # <<>> /\ Head(ltask[t].prog).i = "get"}

\* the zeroing step of valloc_at takes VA_KERNEL->lock (valloc.c:147)
ZeroingGet(t) == ltask[t].op = "valloc_at" /\ Head(ltask[t].prog).line = 147

\* the order in which task t, about to take lock l, may hold locks
LockOrderKept(t, l) ==
    /\ l \in Ctxs \ {VA_KERNEL} => ltask[t].held \cap {VA_KERNEL, kmalloc_lock} = {}
    /\ l = VA_KERNEL => kmalloc_lock \notin ltask[t].held
    /\ l \in Ctxs /\ (ltask[t].held \cap Ctxs) \ {l} # {} => ZeroingGet(t)

\* C14: valloc_at, vmap and vfree take locks nested only in the order
\* context lock, VA_KERNEL lock, kmalloc lock: none takes a lock of a
\* context other than VA_KERNEL while it holds the VA_KERNEL lock or the
\* kmalloc lock, and none but the zeroing step of valloc_at takes the lock
\* of one context while it holds the lock of another.
C14_LockOrder ==
    \A t \in Getting : LockOrderKept(t, Head(ltask[t].prog).l)

\* What does hold of the order: valloc_at, vfree, kmalloc and kfree keep it.
LockOrderOutsideVmap ==
    \A t \in Getting : ltask[t].op # "vmap" => LockOrderKept(t, Head(ltask[t].prog).l)

\* the tasks of S wait in spinlock_get without a retry limit for locks that
\* no call of a task outside S holds: locks held by tasks of S or left
\* taken by a call that has returned
WaitForEver(S) ==
    \A t \in S :
        /\ t \in Getting
        /\ Head(ltask[t].prog).retries = NoRetryLimit
        /\ slock[Head(ltask[t].prog).l] # 0
        /\ \A u \in Tasks \ S : Head(ltask[t].prog).l \notin ltask[u].held

MappedFrames(held_outs, pt) ==
    UNION {{o.shards[i].phys \div PAGE_SIZE :
               i \in {j \in DOMAIN o.shards :
                         pt[o.ctx][o.shards[j].addr \div PAGE_SIZE] = o.shards[j].phys}} :
           o \in {m \in held_outs : m.phys = NULL /\ m.addr # NULL}}

\* a step that tears down a source: valloc_cleanup of a context, or vfree of
\* a range that valloc_at made
SourceTornDown ==
    /\ vret' # vret
    /\ \/ vret'.op = "valloc_cleanup"
       \/ vret'.op = "vfree" /\ vret'.out.phys # NULL

\* C16: valloc_cleanup and vfree of a source range do not return to the
\* frame allocator a page that backs a shard of a vmap mapping which is still
\* installed in a context after the step.
C16_MappedFramesStayAllocated ==
    [][SourceTornDown => (pframes \ pframes') \cap MappedFrames(outs', ptab') = {}]_vars

\* C17: whenever elf_load_file returns -1, errno is ENOEXEC and the task
\* is as it was before the call: binary_path, memory regions, sbrk, entry
\* and interpreter.
C17_FailedLoadLeavesTask ==
    eret.op = "elf_load_file" /\ eret.ret = 0 - 1 =>
        /\ eret.errno = ENOEXEC
        /\ etask = eret.task0

\* What holds of a failed load: errno is ENOEXEC, and the task's working
\* directory is the only field certain to be as before.
FailedLoadSetsErrno ==
    eret.op = "elf_load_file" /\ eret.ret = 0 - 1 =>
        /\ eret.errno = ENOEXEC
        /\ etask.cwd = eret.task0.cwd
        /\ etask.binary_path = vfs_normalize_path(eret.path, eret.task0.cwd)

\* A failed load of a file without the magic bytes: nothing but binary_path
\* has changed.
FailedMagicKeepsRegions ==
    eret.op = "elf_load_file" /\ eret.file # NoFile /\ ~eret.file.magic =>
        /\ eret.ret = 0 - 1
        /\ [etask EXCEPT !.binary_path = eret.task0.binary_path] = eret.task0

\* the mapping of logical block b for tables of P = B/4 entries
MappedSlot(sb, b) ==
    LET P == superblock_to_blocksize(sb) \div 4
    IN  IF b < 12 THEN [kind |-> "direct", i |-> b, j |-> 0]
        ELSE IF b < 12 + P THEN [kind |-> "single", i |-> b - 12, j |-> 0]
        ELSE [kind |-> "double", i |-> (b - 12 - P) \div P, j |-> (b - 12 - P) % P]

MappedBlocks(sb) ==
    12 + superblock_to_blocksize(sb) \div 4
       + (superblock_to_blocksize(sb) \div 4) * (superblock_to_blocksize(sb) \div 4)

\* C18: for every block size B = 1024 << s and P = B/4, read_inode_block
\* takes logical block b < 12 from inode.blocks[b], 12 <= b < 12+P from
\* entry b-12 of the table in blocks[12], and 12+P <= b < 12+P+P*P from
\* entry (b-12-P) mod P of the table at entry (b-12-P) div P of the table
\* in blocks[13].
C18_InodeBlockMapping ==
    /\ xret.op = "read_inode_block"
    /\ xret.block_num <= superblock.block_count
    /\ xret.block_num < MappedBlocks(superblock)
    => xret.slot = MappedSlot(superblock, xret.block_num)

\* What holds: with blocks of 1024 bytes the mapping is the stated one up
\* to logical block 12 + 256 * 256, the examples of the claim among them.
InodeBlockMapping1024 ==
    /\ xret.op = "read_inode_block"
    /\ xret.block_num <= superblock.block_count
    /\ superblock.block_size = 0
    /\ xret.block_num < 12 + 256 * 256
    => /\ xret.slot = MappedSlot(superblock, xret.block_num)
       /\ xret.block_num = 11 => xret.ret = inodes(superblock)[12].blocks[11]
       /\ xret.block_num = 12 => xret.ret = blocks_table(200, 0)
       /\ xret.block_num = 267 => xret.ret = blocks_table(200, 255)
       /\ xret.block_num = 268 => xret.ret = blocks_table(blocks_table(201, 0), 0)

\* C19: ext2_read_file on a regular file with descriptor offset o and
\* request size n returns m = min(n, inode.size - o) and copies the bytes
\* [o, o+m) of the file: successive reads return consecutive parts.
C19_ReadConsumesOffset ==
    /\ xret.op = "read"
    /\ inodes(superblock)[xret.fp.inode].mode = "FT_IFREG"
    /\ xret.fp.inode = 6
    /\ xret.fp.offset <= FileSize
    => /\ xret.ret = MIN(xret.size, FileSize - xret.fp.offset)
       /\ \A i \in 0 .. (xret.ret - 1) :
              DestByte(superblock, xret, i)
                  = FileByte(superblock, inodes(superblock)[6], xret.fp.offset + i)

\* What holds: a read at offset 0 of n <= inode.size bytes returns the
\* first n bytes, and the offset is moved on by what was returned.
ReadAtStart ==
    /\ xret.op = "read"
    /\ xret.fp.inode = 6
    /\ xret.fp.offset = 0
    /\ xret.size <= FileSize
    => /\ xret.ret = xret.size
       /\ fp.offset = xret.size
       /\ \A i \in 0 .. (xret.ret - 1) :
              DestByte(superblock, xret, i) = FileByte(superblock, inodes(superblock)[6], i)

\* the directory entries of a directory inode, as they are on the disk
DirOf(sb, n) == dirents(inodes(sb)[n].blocks[0])

\* the inode that a path names when every symbolic link on the way is
\* followed: dir is the directory reached, stack the directories above it
RECURSIVE Resolved(_, _, _, _, _)
Resolved(sb, stack, dir, names, fuel) ==
    IF names = <<>> THEN dir
    ELSE IF fuel = 0 \/ inodes(sb)[dir].mode # "FT_IFDIR" THEN 0
    ELSE IF Head(names) = "." THEN Resolved(sb, stack, dir, Tail(names), fuel)
    ELSE IF Head(names) = ".."
    THEN IF stack = <<>> THEN Resolved(sb, stack, dir, Tail(names), fuel)
         ELSE Resolved(sb, SubSeq(stack, 1, Len(stack) - 1), stack[Len(stack)],
                       Tail(names), fuel)
    ELSE LET n == find_dirent(DirOf(sb, dir), Head(names))
         IN  IF n = 0 THEN 0
             ELSE IF inodes(sb)[n].mode = "FT_IFLNK"
             THEN IF inodes(sb)[n].link.abs
                  THEN Resolved(sb, <<>>, ROOT_INODE,
                                inodes(sb)[n].link.names \o Tail(names), fuel - 1)
                  ELSE Resolved(sb, stack, dir,
                                inodes(sb)[n].link.names \o Tail(names), fuel - 1)
             ELSE Resolved(sb, Append(stack, dir), n, Tail(names), fuel)

\* the paths with a symbolic link in them
ThroughLink(sb, path) ==
    /\ path.abs
    /\ Resolved(sb, <<>>, ROOT_INODE, path.names, 4) # 0
    /\ \E k \in 1 .. Len(path.names) :
           /\ ext2_walk(sb, ROOT_INODE, SubSeq(path.names, 1, k), <<>>) # 0
           /\ inodes(sb)[ext2_walk(sb, ROOT_INODE, SubSeq(path.names, 1, k), <<>>)].mode
                  = "FT_IFLNK"

\* C20: ext2_open of a path with a symbolic link anywhere in it, in the
\* middle or with a target of more than 60 bytes too, returns the inode
\* of the file that the path names with the links followed.
C20_OpenFollowsLinks ==
    xret.op = "open" /\ ThroughLink(superblock, xret.path)
    => xret.ret = Resolved(superblock, <<>>, ROOT_INODE, xret.path.names, 4)

\* What holds: a path without links gets the inode it names, and so does
\* a path that ends in a link of up to 60 bytes when the comparison of
\* pointers at ext2.c:347 lets the loop run.
OpenPlainOrLastLink ==
    /\ xret.op = "open"
    /\ xret.path.abs
    /\ Resolved(superblock, <<>>, ROOT_INODE, xret.path.names, 4) # 0
    /\ \A k \in 1 .. (Len(xret.path.names) - 1) :
           inodes(superblock)[ext2_walk(superblock, ROOT_INODE,
                                        SubSeq(xret.path.names, 1, k), <<>>)].mode
               = "FT_IFDIR"
    /\ xret.above
    /\ xret.path # AbsPath(<<"long">>)
    => xret.ret = Resolved(superblock, <<>>, ROOT_INODE, xret.path.names, 4)

\* C21: ext2_init registers the mount at "/" only if the superblock's magic
\* is 0xEF53, its state CLEAN and features_incompat zero; when one of the
\* three fails nothing is mounted.
C21_MountOnlyCleanCompatible ==
    mret.op = "ext2_init" =>
        (mount # NoMount =>
            /\ msuper.magic = SUPERBLOCK_MAGIC
            /\ msuper.state = SUPERBLOCK_STATE_CLEAN
            /\ msuper.features_incompat = 0)

\* What holds: a mount is registered only with the magic and a clean
\* state, at "/", and not when a read of the table or the root inode fails.
MountOnlyMagicClean ==
    mret.op = "ext2_init" =>
        /\ mount # NoMount =>
               /\ msuper.magic = SUPERBLOCK_MAGIC
               /\ msuper.state = SUPERBLOCK_STATE_CLEAN
               /\ mount.path = "/"
               /\ mret.fails \notin {"table", "root"}
               /\ mret.fails = "superblock" => build = "fs/ext2/ext2.c"
        /\ mount = NoMount <=> mret.at # "mount"

\* C22: the disk is the same after ext2_init and after every operation
\* through the mount as before, and the callbacks of the mount are open,
\* stat, read and getdents and no others.
C22_DiskNeverWritten ==
    [][/\ mdisk' = mdisk
       /\ mount' # NoMount => mount'.callbacks = {"open", "stat", "read", "getdents"}]_vars

\* What holds: with fs/ext2.c built the disk is never written.
DiskNeverWrittenOldBuild ==
    [][build = "fs/ext2.c" =>
           /\ mdisk' = mdisk
           /\ mount' # NoMount => mount'.callbacks = {"open", "stat", "read", "getdents"}]_vars

\* the value with which each call fails
IoFailure(c) ==
    IF c.op \in {"open", "getdents"} THEN c.ret = 0
    ELSE c.ret < 0

\* C23: when a sector read fails during ext2_open, ext2_read_file,
\* ext2_getdents or ext2_stat, the call ends at once and returns its
\* failure value: 0 for open and getdents, an error for read and stat.
\* It does not retry and does not go on with data that was not read.
C23_FailedReadEndsCall ==
    [][io'.failed /\ ~io.failed => io'.pc = "return" /\ IoFailure(io')]_vars

\* What holds of stat and getdents: a failed read ends them with their
\* failure value.
FailedReadEndsStatGetdents ==
    io.op \in {"stat", "getdents"} /\ io.failed => io.pc = "return" /\ IoFailure(io)

\* C24: sleep_ticks(t) called at tick s returns at the first tick T with
\* T >= s + t, for every s and t whose sum fits the counter: not earlier
\* and not one tick later.
C24_SleepReturnsAtDeadline ==
    sl.pc = "done" /\ sl.start + sl.timeout < TickMod => sl.seen = sl.start + sl.timeout

\* What holds: when s + t is less than the largest value of the counter,
\* sleep_ticks returns at tick s + t + 1, and never before it.
SleepReturnsOneTickLate ==
    /\ sl.pc = "done" /\ sl.start + sl.timeout < TickMod - 1
           => sl.seen = sl.start + sl.timeout + 1
    /\ sl.pc = "wait" /\ sl.start + sl.timeout < TickMod
           => sl.seen <= sl.start + sl.timeout

\* What holds: with s + t the largest value of the counter the loop never
\* ends, no value of pit_tick is greater than until.
SleepNeverEndsAtMax ==
    sl.pc \in {"test", "wait", "done"} /\ sl.until = TickMod - 1 => sl.pc # "done"

\* the number of strings in an array: the index of its first NULL
ArgCount(array) == CHOOSE n \in DOMAIN array : array[n] = NULL /\ \A i \in 0 .. (n - 1) : array[i] # NULL

ExecveLoads ==
    /\ exret.op = "execve"
    /\ ArgCount(exret.argv) < CheckArrayLimit
    /\ ArgCount(exret.env) < CheckArrayLimit
    /\ exret.data = "elf"

\* C25: execve with argv of n < 200 strings and a NULL-terminated envp
\* makes the new task with argc = n, its stack holding argc and
\* argv[0..argc-1]; execve with an array without NULL in 200 entries or a
\* file that cannot be loaded fails, and the caller stays in the scheduler
\* with no task added.
C25_ExecvePassesArgc ==
    /\ ExecveLoads =>
           /\ exret.ret = 0
           /\ exret.new_task.argc = ArgCount(exret.argv)
           /\ exret.new_task.stack
                  = <<ArgCount(exret.argv)>>
                        \o [i \in 1 .. ArgCount(exret.argv) |-> exret.argv[i - 1]]
    /\ exret.op = "execve" /\ ~ExecveLoads =>
           /\ exret.ret = 0 - 1
           /\ sched = exret.tasks0

\* What holds: the failing calls leave the scheduler as it was, and the
\* task that a successful call makes replaces the caller and has argc 2.
ExecveArgcTwo ==
    /\ exret.op = "execve" /\ ~ExecveLoads =>
           /\ exret.ret = 0 - 1
           /\ sched = exret.tasks0
    /\ ExecveLoads =>
           /\ exret.ret = 0
           /\ exret.new_task.argc = 2
           /\ sched = (exret.tasks0 \ {exret.task}) \cup {exret.new_task.pid}

RegisteredFaultVectors == (0 .. 13) \cup (15 .. LastFaultVector)

\* C26: for every exception vector v in 0..13 and 15..31 the registered
\* handler panics, with exception_names[v] when the table has an entry for v
\* and with the unknown-error message otherwise; the table is never indexed
\* past its last entry, and vector 14 is not routed to this handler.
C26_FaultPanicsWithName ==
    /\ freg > LastFaultVector =>
           /\ \A v \in RegisteredFaultVectors : fault_handlers[v] = "handler"
           /\ fault_handlers[14] = "none"
    /\ cf.op = "panic" =>
           /\ cf.interrupt \in RegisteredFaultVectors
           /\ ~cf.past
           /\ cf.msg = IF cf.interrupt < Len(exception_names)
                       THEN exception_names[cf.interrupt + 1]
                       ELSE UnknownCpuError

\* What holds: the registration and the routing are as stated, and every
\* vector but 18 panics with the stated message; vector 18 passes the test
\* interrupt > 18 and reads the table behind its 18 entries.
FaultPanicsButFor18 ==
    /\ freg > LastFaultVector =>
           /\ \A v \in RegisteredFaultVectors : fault_handlers[v] = "handler"
           /\ fault_handlers[14] = "none"
    /\ cf.op = "panic" =>
           /\ cf.interrupt \in RegisteredFaultVectors
           /\ cf.past = (cf.interrupt = 18)
           /\ cf.interrupt # 18 =>
                  cf.msg = IF cf.interrupt < Len(exception_names)
                           THEN exception_names[cf.interrupt + 1]
                           ELSE UnknownCpuError

\* the bytes in the buffer that no read has returned
Unread == [i \in 1 .. data_size |-> buffer[i - 1]]

\* C27: with a pipe_write that runs between any two steps of a pipe_read,
\* or the reverse, no byte is lost, duplicated or reordered: once both
\* calls have returned, the bytes the reads have returned followed by the
\* data_size bytes at the start of the buffer are the bytes of the accepted
\* writes in order.
C27_PipeCallsInterleave ==
    rd.pc \in {"idle", "wait"} /\ wr.pc = "idle" =>
        delivered \o Unread = accepted

\* What holds when the calls interleave: data_size stays within the buffer
\* and no copy leaves it, and a read returns no more bytes than it was
\* asked for.
PipeRaceStaysInBuffer ==
    /\ pstate = "run"
    /\ data_size \in 0 .. PIPE_BUFFER_SIZE
    /\ wr.pc # "idle" => data_size + wr.size <= PIPE_BUFFER_SIZE
    /\ pret.op = "read" => Len(pret.bytes) <= pret.size

\* The records that a walk from record s along the next links visits; the
\* walk ends at a record that kfree has released, whose links are no longer
\* there, and n bounds the walk of a list that has become cyclic.
RECURSIVE ReachableFrom(_, _)
ReachableFrom(s, n) ==
    IF s = NULL \/ n = 0 THEN {}
    ELSE {s} \cup (IF s \in inuse THEN ReachableFrom(recs[s].next, n - 1) ELSE {})

Reachable(ctx) == ReachableFrom(ranges[ctx], Cardinality(Slots) + 1)

\* the records of a context that have not been freed
LiveRanges(ctx) == {s \in inuse : recs[s].ctx = ctx}

\* C28: after vfree(r), where r is the copy valloc_at gave to its caller,
\* and for any order of earlier valloc_at and vfree calls in the context,
\* the freed record is not reachable from ctx->ranges, and every other live
\* record is reachable, with next and previous links to live records only.
C28_VfreeUnlinks ==
    (vret.op = "vfree" /\ vret.ret = 0) =>
        /\ vret.out.self \notin Reachable(vret.ctx)
        /\ LiveRanges(vret.ctx) \subseteq Reachable(vret.ctx)
        /\ \A s \in LiveRanges(vret.ctx) :
               /\ recs[s].next \in LiveRanges(vret.ctx) \cup {NULL}
               /\ recs[s].previous \in LiveRanges(vret.ctx) \cup {NULL}

\* What holds: a vfree that has read no freed record leaves ctx->ranges
\* itself pointing to another record than the freed one, and the freed
\* record is no longer in use.
VfreeMovesHead ==
    (vret.op = "vfree" /\ vret.ret = 0 /\ vstate = "run") =>
        /\ ranges[vret.ctx] # vret.out.self
        /\ vret.out.self \notin inuse

\* C29: across any sequence of kmalloc and kfree calls alloc_end never
\* decreases and never exceeds alloc_max: a kmalloc that the free list
\* cannot serve and whose new block, with alignment gap, header and footer,
\* would end beyond alloc_max panics instead of carving the block.
C29_AllocEndWithinMax ==
    /\ alloc_end >= kret.end0
    /\ alloc_end <= alloc_max

\* What holds: alloc_end never decreases, and a kmalloc carves a new block
\* only when the requested size alone, without gap, header and footer, ends
\* below alloc_max.
AllocEndGrowsPastMax ==
    /\ alloc_end >= kret.end0
    /\ (kret.op = "kmalloc" /\ alloc_end > kret.end0) =>
           kret.end0 + (IF kret.sz < SizeofFreeBlock THEN SizeofFreeBlock ELSE kret.sz)
               < alloc_max

\* the tasks whose call is between spinlock_get and spinlock_release
KlHolders == {t \in Tasks : kl[t].pc \in {"kmalloc_body", "kmalloc_release",
                                          "kfree_body", "kfree_release"}}

\* C30: headers, footers and the free list are read for a decision or
\* modified only while kmalloc_lock is held; a kmalloc that cannot take the
\* lock returns NULL and changes nothing; every path of kmalloc and kfree
\* that does not panic and has taken the lock releases it before it
\* returns; a kfree of a valid USED block leaves the block FREE.
C30_HeapOnlyUnderLock ==
    /\ \A t \in Tasks : ~kl[t].unlocked
    /\ ~klret.unlocked
    /\ (klret.op = "kmalloc" /\ ~klret.got) => klret.ptr = NULL /\ ~klret.changed
    /\ (kstate = "run" /\ KlHolders = {}) => slock[kmalloc_lock] = 0
    /\ (klret.op = "kfree" /\ klret.valid) =>
           /\ klret.changed
           /\ klret.ptr \notin live

\* What holds: at most one call is between spinlock_get and
\* spinlock_release, the lock is free when none is, a kmalloc that cannot
\* take the lock returns NULL and changes nothing, and a kfree that has
\* taken the lock frees the block.
HeapLockReleased ==
    /\ Cardinality(KlHolders) <= 1
    /\ (kstate = "run" /\ KlHolders = {}) => slock[kmalloc_lock] = 0
    /\ (klret.op = "kmalloc" /\ ~klret.got) => klret.ptr = NULL /\ ~klret.changed
    /\ (klret.op = "kfree" /\ klret.got) => klret.changed /\ klret.ptr \notin live

\* the frames that back a range: size / 4096 frames from phys on for a
\* contiguous range, one frame for each shard of a range made by vmap
BackingFrames(range) ==
    (IF range.phys # NULL
     THEN (range.phys \div PAGE_SIZE) ..
              (range.phys \div PAGE_SIZE + range.size \div PAGE_SIZE - 1)
     ELSE {})
    \cup {range.shards[i].phys \div PAGE_SIZE : i \in DOMAIN range.shards}

\* a step that is a vfree which returned 0
VfreeReturns == outs' # outs /\ vret'.op = "vfree" /\ vret'.ret = 0

\* C31: vfree of a range returns to the frame allocator exactly the frames
\* that back the range when VM_FREE is set, size / 4096 frames from phys on
\* for a contiguous range and one frame for each shard of a vmap range, and
\* returns no frame when the flag is clear.
C31_VfreeReturnsBackingFrames ==
    [][VfreeReturns =>
           pframes' = IF "VM_FREE" \in vret'.out.flags
                      THEN pframes \ BackingFrames(vret'.out)
                      ELSE pframes]_vars

\* What holds: the same for the ranges without shards, and for every range
\* without VM_FREE; of a range with shards vfree returns no other frames
\* than those of the shards.
VfreeReturnsContiguousFrames ==
    [][VfreeReturns =>
           /\ vret'.out.shards = <<>> \/ "VM_FREE" \notin vret'.out.flags =>
                  pframes' = IF "VM_FREE" \in vret'.out.flags
                             THEN pframes \ BackingFrames(vret'.out)
                             ELSE pframes
           /\ pframes \ BackingFrames(vret'.out) \subseteq pframes']_vars

\* C32: for each interrupt entry the re-entrancy check comes first and EOI
\* is sent only for an interrupt that is not dropped, to the slave PIC
\* exactly when the vector is >= 40 and to the master PIC exactly when it
\* is >= 32, before the handler is invoked; a dropped nested interrupt and
\* a vector below 32 send no EOI.
C32_EoiAfterCheck ==
    /\ \A i \in DOMAIN istack :
           /\ (istack[i].slave \/ istack[i].master) =>
                  istack[i].pc \in {"lookup", "handler", "clear"}
           /\ istack[i].pc = "handler" =>
                  /\ istack[i].slave = (istack[i].int_no >= IRQ8)
                  /\ istack[i].master = (istack[i].int_no >= IRQ0)
    /\ eoi.dropped => ~eoi.slave /\ ~eoi.master
    /\ (iret.op # "init" /\ ~eoi.dropped) =>
           /\ eoi.slave = (eoi.int_no >= IRQ8)
           /\ eoi.master = (eoi.int_no >= IRQ0)

\* What holds: every entry, dropped or not, has sent its EOIs when it
\* returns and when its handler is invoked: to the slave PIC exactly for
\* the vectors >= 40 and to the master PIC exactly for the vectors >= 32.
EoiForEveryIrq ==
    /\ \A i \in DOMAIN istack :
           istack[i].pc \in {"test", "set", "lookup", "handler", "clear"} =>
               /\ istack[i].slave = (istack[i].int_no >= IRQ8)
               /\ istack[i].master = (istack[i].int_no >= IRQ0)
    /\ iret.op # "init" =>
           /\ eoi.slave = (eoi.int_no >= IRQ8)
           /\ eoi.master = (eoi.int_no >= IRQ0)

\* the read has returned to its caller with at least one byte
ReadReturnedBytes == rd.pc = "idle" /\ pret.op = "read" /\ pret.ret >= 1

\* C33 as stated: a pipe_read that has waited on an empty pipe returns with
\* at least one byte.
PipeReadWaitedForByte ==
    (pret.op = "read" /\ pret.errno = "" /\ pret.call.data_size = 0) => pret.ret >= 1

\* C33: a pipe_read for at least one byte that waits on an empty pipe
\* returns with at least one byte once a pipe_write of size >= 1 has
\* succeeded, when ticks keep occurring and the scheduler is fair to the
\* reader; it leaves the wait only when data_size is not 0, and a waiting
\* read for no bytes returns none.
C33_WaitingReadReturns ==
    /\ (rd.pc = "wait" /\ rd.req >= 1 /\ data_size > 0) ~> ReadReturnedBytes
    /\ [][rd.pc = "wait" /\ rd'.pc # "wait" => data_size # 0]_vars
    /\ []((pret.op = "read" /\ pret.errno = "" /\ pret.call.data_size = 0) =>
              pret.ret >= MIN(pret.size, 1))

\* a read for two bytes that found the pipe empty and waited has returned
\* the byte of a write made while it waited
W33_WaitingReadReturns ==
    /\ ReadReturnedBytes
    /\ pret.call.data_size = 0
    /\ pret.size = 2 /\ pret.ret = 1

\* the regions that the last elf_load_file has added for program header h
RegionsOf(h) ==
    {i \in (Len(eret.task0.mem) + 1) .. Len(etask.mem) :
        /\ etask.mem[i].virt = ALIGN_DOWN(h.vaddr, PAGE_SIZE)
        /\ etask.mem[i].size = VMEM_ALIGN(h.memsz)}

\* the last call has returned 0 for a main binary that passed the tests of
\* load_file and none of whose program headers fails to load
MainBinaryLoads ==
    /\ eret.op = "elf_load_file" /\ eret.ret = 0 /\ eret.file # NoFile
    /\ eret.file.header_read /\ eret.file.magic /\ eret.file.type = ELF_TYPE_EXEC
    /\ eret.file.machine /\ eret.file.version /\ eret.file.entry # 0
    /\ eret.file.phnum # 0 /\ eret.file.shnum # 0 /\ eret.file.pheads_read
    /\ \A i \in DOMAIN eret.file.pheads :
           /\ eret.file.pheads[i].alloc /\ eret.file.pheads[i].read
           /\ ~({"PF_X", "PF_W"} \subseteq eret.file.pheads[i].flags)

\* C34: when a main binary passes header validation and all its program
\* headers load, every PT_LOAD header of its table has exactly one region
\* registered with the task, wherever PT_INTERP and PT_DYNAMIC stand in the
\* table; a PT_LOAD header that is executable and writable fails the load.
C34_EveryLoadHeaderHasRegion ==
    /\ MainBinaryLoads =>
           \A i \in DOMAIN eret.file.pheads :
               eret.file.pheads[i].type = "PT_LOAD" =>
                   Cardinality(RegionsOf(eret.file.pheads[i])) = 1
    /\ (/\ eret.op = "elf_load_file" /\ eret.file # NoFile
        /\ \E i \in DOMAIN eret.file.pheads :
               /\ eret.file.pheads[i].type = "PT_LOAD"
               /\ {"PF_X", "PF_W"} \subseteq eret.file.pheads[i].flags)
           => eret.ret = 0 - 1

\* What holds: the PT_LOAD headers standing before the first PT_INTERP
\* header have one region each, those behind it have none; an executable
\* and writable PT_LOAD header before any PT_INTERP fails the load.
LoadHeadersBeforeInterpHaveRegion ==
    MainBinaryLoads =>
        \A i \in DOMAIN eret.file.pheads :
            eret.file.pheads[i].type = "PT_LOAD" =>
                Cardinality(RegionsOf(eret.file.pheads[i])) =
                    IF \E j \in 1 .. (i - 1) : eret.file.pheads[j].type = "PT_INTERP"
                    THEN 0 ELSE 1

\* the PT_LOAD headers that the last call has loaded from the main binary
LoadedHeaders ==
    {i \in DOMAIN eret.file.pheads :
        /\ eret.file.pheads[i].type = "PT_LOAD"
        /\ ~\E j \in 1 .. (i - 1) : eret.file.pheads[j].type = "PT_INTERP"}

\* C35: for every loaded PT_LOAD header of the main binary, with filesz <=
\* memsz and any vaddr, the registered region [virt, virt + size) contains
\* [vaddr, vaddr + memsz), the filesz file bytes are written inside the
\* buffer of size bytes, and sbrk is at least vaddr + memsz afterwards.
C35_RegionCoversSegment ==
    MainBinaryLoads =>
        \A i \in LoadedHeaders :
            /\ eret.file.pheads[i].filesz <= eret.file.pheads[i].memsz =>
                   /\ \E r \in RegionsOf(eret.file.pheads[i]) :
                          /\ etask.mem[r].virt <= eret.file.pheads[i].vaddr
                          /\ eret.file.pheads[i].vaddr + eret.file.pheads[i].memsz
                                 <= etask.mem[r].virt + etask.mem[r].size
                   /\ phys_write(eret.file.pheads[i]).from >= 0
                   /\ phys_write(eret.file.pheads[i]).to
                          <= phys_write(eret.file.pheads[i]).size
                   /\ etask.sbrk >= eret.file.pheads[i].vaddr + eret.file.pheads[i].memsz

\* What holds: the region starts at the page of vaddr and has the pages of
\* memsz bytes, so it covers the segment when vaddr is on a page boundary;
\* sbrk is at least the end of every region.
RegionCoversAlignedSegment ==
    MainBinaryLoads =>
        \A i \in LoadedHeaders :
            /\ \E r \in RegionsOf(eret.file.pheads[i]) :
                   /\ etask.mem[r].virt <= eret.file.pheads[i].vaddr
                   /\ etask.sbrk >= etask.mem[r].virt + etask.mem[r].size
                   /\ eret.file.pheads[i].vaddr % PAGE_SIZE = 0 =>
                          /\ eret.file.pheads[i].vaddr + eret.file.pheads[i].memsz
                                 <= etask.mem[r].virt + etask.mem[r].size
                          /\ etask.sbrk >= eret.file.pheads[i].vaddr
                                               + eret.file.pheads[i].memsz
            /\ (eret.file.pheads[i].vaddr % PAGE_SIZE = 0
                    /\ eret.file.pheads[i].filesz <= eret.file.pheads[i].memsz) =>
                   phys_write(eret.file.pheads[i]).to <= phys_write(eret.file.pheads[i]).size

\* the byte intervals [a1, a2) and [b1, b2) have a byte in common
Overlap(a1, a2, b1, b2) == a1 < b2 /\ b1 < a2

\* the end of the content area of the block handed out as p
ContentEnd(p) == p + SizeOf(mem, p - SizeofMemBlock)

\* C36: after any sequence of kmalloc and kfree calls on valid pointers the
\* content areas of the blocks handed out and not freed are pairwise
\* disjoint, lie inside [alloc_start, alloc_end), and overlap no header,
\* footer or free-list field of any other block.
C36_LiveContentsDisjoint ==
    \A p \in live :
        /\ (p - SizeofMemBlock) \in Range(ArenaBlocks)
        /\ SizeOf(mem, p - SizeofMemBlock) >= SizeofFreeBlock
        /\ alloc_start <= p - SizeofMemBlock /\ ContentEnd(p) + SizeofFooter <= alloc_end
        /\ \A q \in live \ {p} : ~Overlap(p, ContentEnd(p), q, ContentEnd(q))
        /\ \A b \in Range(ArenaBlocks) \ {p - SizeofMemBlock} :
               /\ ~Overlap(p, ContentEnd(p), b, b + SizeofMemBlock)
               /\ ~Overlap(p, ContentEnd(p),
                           GET_FOOTER(mem, b), GET_FOOTER(mem, b) + SizeofFooter)
        /\ \A fb \in Range(FreeList) :
               /\ ~Overlap(p, ContentEnd(p), fb, fb + SizeofFreeBlock)
               /\ ~Overlap(p, ContentEnd(p), GET_HEADER_FROM_FB(fb), fb)
               /\ ~Overlap(p, ContentEnd(p),
                           GET_FOOTER(mem, GET_HEADER_FROM_FB(fb)),
                           GET_FOOTER(mem, GET_HEADER_FROM_FB(fb)) + SizeofFooter)

\* two blocks are handed out, the last of them an aligned one cut out of a
\* free block that an earlier kfree left, behind a free gap block
W36_LiveContentsDisjoint ==
    /\ kret.op = "kmalloc" /\ kret.align /\ kret.ptr \in live
    /\ Cardinality(live) >= 2
    /\ kret.end0 = alloc_end
    /\ \E b \in FreeHeaders : NEXT_BLOCK(mem, b) = kret.ptr - SizeofMemBlock

\* C37: in every valloc context, after any sequence of valloc_at and vfree
\* calls, the address intervals of the live ranges are pairwise disjoint: a
\* valloc_at for an address inside an allocated range makes no second
\* range over the same pages.
C37_LiveRangesDisjoint ==
    vstate = "run" =>
        \A ctx \in Ctxs : \A s \in LiveRanges(ctx), t \in LiveRanges(ctx) :
            s # t => ~Overlap(recs[s].addr, recs[s].addr + recs[s].size,
                              recs[t].addr, recs[t].addr + recs[t].size)

\* What holds: a valloc_at without a requested address returns pages whose
\* bits were clear before the call.
UnrequestedRangeWasClear ==
    (vret.op = "valloc_at" /\ vret.ret = 0 /\ vret.addr = NULL) =>
        RangeBits(vret.out) \cap vret.bitmap0[vret.ctx] = {}

\* a step with which the call of task t returns to its caller
LockCallReturns(t) ==
    /\ ltask[t].prog # <<>> /\ ltask'[t].prog = <<>>
    /\ Head(ltask[t].prog).i # "panic"
    /\ lstate' = "run"

\* the locks that the call of task t has taken and not released when the
\* step is done
HeldAfter(t) ==
    IF Head(ltask[t].prog).i = "release"
    THEN ltask[t].held \ {Head(ltask[t].prog).l}
    ELSE IF Head(ltask[t].prog).i = "get" /\ slock' # slock
    THEN ltask[t].held \cup {Head(ltask[t].prog).l}
    ELSE ltask[t].held

\* C38: every return path of valloc_at, vmap, vfree and valloc_get_range
\* releases every spin lock the call has taken: when the call returns, with
\* success or failure, it holds neither the lock of the target context nor
\* that of the source context nor that of VA_KERNEL.
C38_ReturnReleasesLocks ==
    [][\A t \in Tasks :
          (LockCallReturns(t)
               /\ ltask[t].op \in {"valloc_at", "vmap", "vfree", "valloc_get_range"})
              => HeldAfter(t) = {}]_vars

\* What holds: valloc_at, vfree and valloc_get_range return without a lock,
\* and so does vmap on every path but that of VM_MAP_USER_ONLY.
ReturnReleasesLocksButUserOnly ==
    [][\A t \in Tasks :
          LockCallReturns(t) =>
              \/ HeldAfter(t) = {}
              \/ ltask[t].op = "vmap" /\ Head(ltask[t].prog).line = 321]_vars

\* a step in which valloc_at returns -1 or vmap returns NULL
VallocCallFails ==
    /\ vcalls' # vcalls /\ vstate' = "run"
    /\ \/ vret'.op = "valloc_at" /\ vret'.ret = 0 - 1
       \/ vret'.op = "vmap" /\ vret'.ret = NULL

\* C39: a valloc_at that returns -1 or a vmap that returns NULL leaves the
\* target context as it was before the call: its bitmap, its range list
\* and its page mappings are unchanged, and no frame that the call has
\* allocated stays allocated.
C39_FailedCallLeavesContext ==
    [][VallocCallFails =>
           /\ bitmap'[vret'.ctx] = bitmap[vret'.ctx]
           /\ ranges'[vret'.ctx] = ranges[vret'.ctx]
           /\ ptab'[vret'.ctx] = ptab[vret'.ctx]
           /\ pframes' = pframes]_vars

\* What holds: a failing call leaves the range list of every context and
\* the bitmaps and page tables of the other contexts as they were, and
\* clears no bit of the target's bitmap.
FailedCallKeepsRangeList ==
    [][VallocCallFails =>
           /\ ranges' = ranges
           /\ bitmap[vret'.ctx] \subseteq bitmap'[vret'.ctx]
           /\ \A ctx \in Ctxs \ {vret'.ctx} :
                  bitmap'[ctx] = bitmap[ctx] /\ ptab'[ctx] = ptab[ctx]]_vars

\* the arguments of the vmap call that the step makes, as vmap derives them
VmapCalled == vmap_args(vret'.ctx, vret'.src_ctx, vret'.addr, vret'.size, vret'.flags)

\* the destination that alloc_virt gives the call
VmapTarget == alloc_virt(VNow, VmapCalled.ctx, VmapCalled.size_pages, NULL)

\* how the call leaves its mapping loop
VmapLoop ==
    vmap_pass(VmapTarget.vs, [VmapCalled EXCEPT !.virt = VmapTarget.virt],
              [pages_offset |-> 0, pages_mapped |-> 0, shards |-> <<>>])

\* a step in which vmap gets past its mapping loop, to the assertion
VmapReachesAssert ==
    /\ vcalls' # vcalls /\ vret'.op = "vmap" /\ vstate' \in {"run", "panic"}
    /\ VmapTarget.virt # NULL
    /\ VmapLoop.exit = "done"

\* C40: the assertion pages_mapped == size_pages of vmap holds on every
\* path that reaches it, for every size, source address, flag combination
\* and set of source ranges: one shard has been recorded for each of the
\* size_pages destination pages.
C40_VmapAssertHolds ==
    [][VmapReachesAssert =>
           /\ VmapLoop.st.pages_mapped = VmapCalled.size_pages
           /\ Len(VmapLoop.st.shards) = VmapCalled.size_pages
           /\ vstate' = "run"]_vars

\* What holds: without VM_MAP_UNDERALLOC_WORKAROUND the assertion holds and
\* there is one shard for each page; with it there is one shard for each
\* page but the one whose source range is missing.
VmapAssertHoldsWithoutWorkaround ==
    [][VmapReachesAssert =>
           IF "VM_MAP_UNDERALLOC_WORKAROUND" \in vret'.flags
           THEN Len(VmapLoop.st.shards) \in {VmapLoop.st.pages_mapped,
                                            VmapLoop.st.pages_mapped - 1}
           ELSE /\ VmapLoop.st.pages_mapped = VmapCalled.size_pages
                /\ Len(VmapLoop.st.shards) = VmapCalled.size_pages
                /\ vstate' = "run"]_vars

=============================================================================
